---- MODULE Spec2Model ----
(***************************************************************************)
(* tsfluent: the Result / ResultAsync containers and AsyncUtils.tryAsync.  *)
(*                                                                         *)
(* Representation.  A JavaScript object is a function from its own keys to *)
(* their values, so {...a, ...b} is Spread(a, b) and "k in o" is           *)
(* k \in DOMAIN o.  An optional slot (T | undefined) is a sequence of      *)
(* length at most one: <<>> is undefined, <<v>> holds v.  A Date is the    *)
(* reading of a logical clock, a positive integer; a timestamp key that is *)
(* absent is the only falsy timestamp.  A settled Promise is               *)
(* [st |-> "fulfilled", v |-> value] or [st |-> "rejected", reason |-> r]. *)
(***************************************************************************)
EXTENDS Integers, Sequences, FiniteSets, TLC

VARIABLES
    cur,      \* <<>> or <<c>>: the container the caller holds and operates on
    out,      \* <<>> or <<c>>: the container returned by map / bind / fromResult
    clock,    \* the last reading of the clock (new Date())
    last,     \* what the last operation was, its arguments and what it returned
    pc,       \* position of the pending asynchronous call, "idle" when none
    pending,  \* locals of the pending asynchronous call
    pool,     \* the list of Results handed to Result.merge
    merged,   \* <<>> or <<m>>: what Result.merge returned
    try       \* the state of one AsyncUtils.tryAsync call

vars == <<cur, out, clock, last, pc, pending, pool, merged, try>>

----------------------------------------------------------------------------
(* Bounds of the model *)

MaxRecords == 2
MaxClock == 1
MaxPool == 2
MaxAttempts == 3

----------------------------------------------------------------------------
(* Objects, optional slots, the clock *)

Spread(a, b) ==
    [k \in (DOMAIN a) \cup (DOMAIN b) |-> IF k \in DOMAIN b THEN b[k] ELSE a[k]]

\* o.timestamp || now
TimestampOr(o, now) ==
    IF "timestamp" \in DOMAIN o THEN o.timestamp ELSE now

\* the readings new Date() can give during the next operation
Nows == {t \in {clock, clock + 1} : t <= MaxClock}

Reverse(s) == [i \in 1..Len(s) |-> s[Len(s) + 1 - i]]

Values == {1, 2}

\* arguments of type string | IError | IError[]
StrArg(s) == [typeof |-> "string", s |-> s]
ObjArg(o) == [typeof |-> "object", o |-> o]
ArrArg(items) == [typeof |-> "array", items |-> items]

\* typeof error === "string" ? { message: error } : error
ToIError(error) ==
    IF error.typeof = "string" THEN [message |-> error.s] ELSE error.o

ToISuccess(success, now) ==
    IF success.typeof = "string"
    THEN [message |-> success.s, timestamp |-> now]
    ELSE Spread(success.o, [timestamp |-> now])

----------------------------------------------------------------------------
(* Result (src/src/result.ts) *)

DefaultOptions == [defaultValueWhenFailure |-> FALSE, preserveErrorsOrder |-> TRUE]

\* options.metadata is set and truthy
OptionsMetadata(options) ==
    IF options # <<>> /\ "metadata" \in DOMAIN options[1]
    THEN options[1].metadata
    ELSE <<>>

Result_new(value, options, now) ==
    [kind |-> "Result",
     isSuccess |-> TRUE,
     value |-> value,
     errors |-> <<>>,
     successes |-> <<>>,
     metadata |->
        IF OptionsMetadata(options) # <<>>
        THEN <<Spread(OptionsMetadata(options)[1],
                      [timestamp |-> TimestampOr(OptionsMetadata(options)[1], now)])>>
        ELSE <<>>,
     options |->
        IF options # <<>> THEN Spread(DefaultOptions, options[1]) ELSE DefaultOptions]

Result_okAlwaysMetadata(value, metadataOrOptions, now) ==
    IF metadataOrOptions = <<>>
    THEN Result_new(value, <<>>, now)
    ELSE Result_new(value, <<[metadata |-> metadataOrOptions]>>, now)

Result_ok(value, metadataOrOptions, now) ==
    IF metadataOrOptions = <<>>
    THEN Result_new(value, <<>>, now)
    ELSE IF "metadata" \in DOMAIN metadataOrOptions[1]
         THEN Result_new(value, metadataOrOptions, now)
         ELSE Result_new(value, <<[metadata |-> metadataOrOptions]>>, now)

addError(errors, error, now) ==
    Append(errors, Spread(error, [timestamp |-> TimestampOr(error, now)]))

addSuccess(successes, success, now) ==
    Append(successes, Spread(success, [timestamp |-> TimestampOr(success, now)]))

RECURSIVE addAll(_, _, _)
\* items.forEach((e) => result.addError(e))
addAll(errors, items, now) ==
    IF items = <<>> THEN errors
    ELSE addAll(addError(errors, Head(items), now), Tail(items), now)

RECURSIVE addAllSuccesses(_, _, _)
addAllSuccesses(successes, items, now) ==
    IF items = <<>> THEN successes
    ELSE addAllSuccesses(addSuccess(successes, Head(items), now), Tail(items), now)

Result_fail(error, metadata, now) ==
    LET result == [Result_new(<<>>, <<[metadata |-> metadata]>>, now)
                     EXCEPT !.isSuccess = FALSE]
    IN  IF error.typeof = "array"
        THEN [result EXCEPT !.errors = addAll(@, error.items, now)]
        ELSE [result EXCEPT !.errors = addError(@, ToIError(error), now)]

isFailure(r) == ~r.isSuccess

\* the value getter: what it throws, or what it returns
Result_valueNoOption(r) ==
    IF isFailure(r)
    THEN [threw |-> TRUE, message |-> "Cannot get value from failed result",
          value |-> <<>>]
    ELSE [threw |-> FALSE, message |-> "", value |-> r.value]

Result_value(r) ==
    IF isFailure(r) /\ ~r.options.defaultValueWhenFailure
    THEN [threw |-> TRUE, message |-> "Cannot get value from failed result",
          value |-> <<>>]
    ELSE [threw |-> FALSE, message |-> "", value |-> r.value]

Result_errorsNoReverse(r) == r.errors

Result_errors(r) ==
    IF r.options.preserveErrorsOrder THEN r.errors ELSE Reverse(r.errors)

Result_getSuccesses(r) == r.successes

Result_getMetadata(r) == r.metadata

Result_withErrorKeepsStatus(r, error, now) ==
    [r EXCEPT !.errors = addError(@, ToIError(error), now)]

Result_withError(r, error, now) ==
    [r EXCEPT !.errors = addError(@, ToIError(error), now),
              !.isSuccess = FALSE]

Result_withSuccessKeepsStamp(r, success, now) ==
    [r EXCEPT !.successes = addSuccess(@, ToIError(success), now)]

Result_withSuccess(r, success, now) ==
    [r EXCEPT !.successes = addSuccess(@, ToISuccess(success, now), now)]

Result_withValueAlways(r, value) == [r EXCEPT !.value = value]

Result_withValue(r, value) ==
    IF r.isSuccess THEN [r EXCEPT !.value = value] ELSE r

Result_withContextReplaces(r, context) ==
    IF Len(r.errors) > 0
    THEN [r EXCEPT !.errors[Len(r.errors)] = Spread(@, [context |-> context])]
    ELSE r

Result_withContext(r, context) ==
    IF Len(r.errors) > 0
    THEN [r EXCEPT !.errors[Len(r.errors)] =
            Spread(@, [context |->
                Spread(IF "context" \in DOMAIN @ THEN @.context ELSE <<>>, context)])]
    ELSE r

Result_clearErrorsKeepsStatus(r) == [r EXCEPT !.errors = <<>>]

Result_clearErrors(r) ==
    [r EXCEPT !.errors = <<>>, !.isSuccess = TRUE]

Result_withMetadata(r, metadata, now) ==
    [r EXCEPT !.metadata =
        <<Spread(Spread(IF @ = <<>> THEN <<>> ELSE @[1], metadata),
                 [timestamp |-> TimestampOr(metadata, now)])>>]

\* class Result declares _metadata and getMetadata() only: result.metadata is
\* a property the object does not have
Result_metadata(r) == <<>>

----------------------------------------------------------------------------
(* Result.merge *)

RECURSIVE mergeLoopFirstOnly(_, _, _, _, _)
mergeLoopFirstOnly(results, mergedResult, values, hasErrors, now) ==
    IF results = <<>>
    THEN IF hasErrors
         THEN [mergedResult EXCEPT !.isSuccess = FALSE]
         ELSE [mergedResult EXCEPT !.value = <<values>>]
    ELSE LET result == Head(results)
         IN  mergeLoopFirstOnly(
                Tail(results),
                [mergedResult EXCEPT
                    !.errors = IF isFailure(result) /\ ~hasErrors
                               THEN addAll(@, result.errors, now) ELSE @,
                    !.successes = addAllSuccesses(@, result.successes, now)],
                IF result.isSuccess /\ result.value # <<>>
                THEN Append(values, result.value[1]) ELSE values,
                hasErrors \/ isFailure(result),
                now)

RECURSIVE mergeLoop(_, _, _, _, _)
\* results.forEach(...) over results[i..], with the accumulators of the loop
mergeLoop(results, mergedResult, values, hasErrors, now) ==
    IF results = <<>>
    THEN IF hasErrors
         THEN [mergedResult EXCEPT !.isSuccess = FALSE]
         ELSE [mergedResult EXCEPT !.value = <<values>>]
    ELSE LET result == Head(results)
         IN  mergeLoop(
                Tail(results),
                [mergedResult EXCEPT
                    !.errors = IF isFailure(result)
                               THEN addAll(@, result.errors, now) ELSE @,
                    !.successes = addAllSuccesses(@, result.successes, now)],
                IF result.isSuccess /\ result.value # <<>>
                THEN Append(values, result.value[1]) ELSE values,
                hasErrors \/ isFailure(result),
                now)

Result_merge(results, now) ==
    mergeLoop(results, Result_new(<<>>, <<>>, now), <<>>, FALSE, now)

----------------------------------------------------------------------------
(* ResultAsync (src/unnamed/part_005) *)

Fulfilled(v) == [st |-> "fulfilled", v |-> v]
Rejected(reason) == [st |-> "rejected", reason |-> reason]

\* arguments of type T | Promise<T>
PlainArg(v) == [isPromise |-> FALSE, v |-> v]
PromiseArg(p) == [isPromise |-> TRUE, p |-> p]

ResultAsync_newUnwrapped(value, options, now) ==
    [kind |-> "ResultAsync",
     isSuccess |-> TRUE,
     value |-> IF value.isPromise THEN <<value.p>>
               ELSE IF value.v = <<>> THEN <<>> ELSE <<Fulfilled(value.v)>>,
     errors |-> <<>>,
     successes |-> <<>>,
     metadata |->
        IF OptionsMetadata(options) # <<>>
        THEN <<Spread(OptionsMetadata(options)[1],
                      [timestamp |-> TimestampOr(OptionsMetadata(options)[1], now)])>>
        ELSE <<>>,
     options |->
        IF options # <<>> THEN Spread(DefaultOptions, options[1]) ELSE DefaultOptions]

ResultAsync_new(value, options, now) ==
    [kind |-> "ResultAsync",
     isSuccess |-> TRUE,
     value |-> IF value.isPromise THEN <<value.p>> ELSE <<Fulfilled(value.v)>>,
     errors |-> <<>>,
     successes |-> <<>>,
     metadata |->
        IF OptionsMetadata(options) # <<>>
        THEN <<Spread(OptionsMetadata(options)[1],
                      [timestamp |-> TimestampOr(OptionsMetadata(options)[1], now)])>>
        ELSE <<>>,
     options |->
        IF options # <<>> THEN Spread(DefaultOptions, options[1]) ELSE DefaultOptions]

ResultAsync_okAsync(value, metadataOrOptions, now) ==
    IF metadataOrOptions = <<>>
    THEN ResultAsync_new(value, <<>>, now)
    ELSE IF "metadata" \in DOMAIN metadataOrOptions[1]
         THEN ResultAsync_new(value, metadataOrOptions, now)
         ELSE ResultAsync_new(value, <<[metadata |-> metadataOrOptions]>>, now)

ResultAsync_failAsync(error, metadata, now) ==
    LET result == [ResultAsync_new(PlainArg(<<>>), <<[metadata |-> metadata]>>, now)
                     EXCEPT !.isSuccess = FALSE]
    IN  IF error.typeof = "array"
        THEN [result EXCEPT !.errors = addAll(@, error.items, now)]
        ELSE [result EXCEPT !.errors = addError(@, ToIError(error), now)]

ResultAsync_value(r) ==
    IF isFailure(r) /\ ~r.options.defaultValueWhenFailure
    THEN [threw |-> TRUE, message |-> "Cannot get value from failed result",
          value |-> <<>>]
    ELSE [threw |-> FALSE, message |-> "", value |-> r.value]

ResultAsync_errors(r) ==
    IF r.options.preserveErrorsOrder THEN r.errors ELSE Reverse(r.errors)

ResultAsync_withErrorKeepsStatus(r, error, now) ==
    [r EXCEPT !.errors = addError(@, ToIError(error), now)]

ResultAsync_withError(r, error, now) ==
    [r EXCEPT !.errors = addError(@, ToIError(error), now),
              !.isSuccess = FALSE]

ResultAsync_withSuccess(r, success, now) ==
    [r EXCEPT !.successes = addSuccess(@, ToISuccess(success, now), now)]

ResultAsync_withValue(r, value) ==
    IF r.isSuccess
    THEN [r EXCEPT !.value = IF value.isPromise THEN <<value.p>>
                                                 ELSE <<Fulfilled(value.v)>>]
    ELSE r

ResultAsync_withContext(r, context) ==
    IF Len(r.errors) > 0
    THEN [r EXCEPT !.errors[Len(r.errors)] =
            Spread(@, [context |->
                Spread(IF "context" \in DOMAIN @ THEN @.context ELSE <<>>, context)])]
    ELSE r

ResultAsync_clearErrors(r) ==
    [r EXCEPT !.errors = <<>>, !.isSuccess = TRUE]

ResultAsync_withMetadata(r, metadata, now) ==
    [r EXCEPT !.metadata =
        <<Spread(Spread(IF @ = <<>> THEN <<>> ELSE @[1], metadata),
                 [timestamp |-> TimestampOr(metadata, now)])>>]

ResultAsync_fromResult(result, now) ==
    LET asyncResult ==
            ResultAsync_new(
                PlainArg(IF result.isSuccess THEN Result_value(result).value ELSE <<>>),
                <<>>, now)
        withErrors ==
            IF isFailure(result)
            THEN [asyncResult EXCEPT
                    !.isSuccess = FALSE,
                    !.errors = addAll(@, Result_errors(result), now)]
            ELSE asyncResult
        withSuccesses ==
            [withErrors EXCEPT
                !.successes = addAllSuccesses(@, Result_getSuccesses(result), now)]
        metadata == Result_metadata(result)
    IN  IF metadata # <<>>
        THEN ResultAsync_withMetadata(withSuccesses, metadata[1], now)
        ELSE withSuccesses

ResultAsync_getErrorsStored(r) == r.errors

\* this.getErrors()
ResultAsync_getErrors(r) == ResultAsync_errors(r)

RECURSIVE withAllSuccesses(_, _, _)
\* this._successes.forEach((s) => result.withSuccess(s))
withAllSuccesses(result, items, now) ==
    IF items = <<>> THEN result
    ELSE withAllSuccesses(Result_withSuccess(result, ObjArg(Head(items)), now),
                          Tail(items), now)

ResultAsync_toResultCatches(r, now) ==
    IF r.value # <<>> /\ r.value[1].st = "rejected"
    THEN Fulfilled(Result_fail(StrArg("Promise rejected"), <<>>, now))
    ELSE LET value == IF r.value = <<>> THEN <<>> ELSE r.value[1].v
             result == IF r.isSuccess
                       THEN Result_ok(value, <<>>, now)
                       ELSE Result_fail(ArrArg(ResultAsync_getErrors(r)), <<>>, now)
             withMeta == IF r.metadata # <<>>
                         THEN Result_withMetadata(result, r.metadata[1], now)
                         ELSE result
         IN  Fulfilled(withAllSuccesses(withMeta, r.successes, now))

\* toResult, for a receiver whose pending value has settled: what the returned
\* promise settles with
ResultAsync_toResult(r, now) ==
    IF r.value # <<>> /\ r.value[1].st = "rejected"
    THEN Rejected(r.value[1].reason)
    ELSE LET value == IF r.value = <<>> THEN <<>> ELSE r.value[1].v
             result == IF r.isSuccess
                       THEN Result_ok(value, <<>>, now)
                       ELSE Result_fail(ArrArg(ResultAsync_getErrors(r)), <<>>, now)
             withMeta == IF r.metadata # <<>>
                         THEN Result_withMetadata(result, r.metadata[1], now)
                         ELSE result
         IN  Fulfilled(withAllSuccesses(withMeta, r.successes, now))

\* what the promise handed to from resolves to: a Result or a plain value
ResultValue(result) == [isResult |-> TRUE, result |-> result]
PlainValue(value) == [isResult |-> FALSE, value |-> value]

ResultAsync_fromNoCause(promise, now) ==
    IF promise.st = "fulfilled"
    THEN IF promise.v.isResult
         THEN Fulfilled(ResultAsync_fromResult(promise.v.result, now))
         ELSE Fulfilled(ResultAsync_okAsync(PlainArg(promise.v.value), <<>>, now))
    ELSE Fulfilled(ResultAsync_failAsync(
            ObjArg([message |-> IF promise.reason.isError
                                THEN promise.reason.message ELSE "Promise rejected",
                    causedBy |-> <<>>,
                    timestamp |-> now]),
            <<>>, now))

\* from(promise), for a promise that has settled: what the returned promise
\* settles with
ResultAsync_from(promise, now) ==
    IF promise.st = "fulfilled"
    THEN IF promise.v.isResult
         THEN Fulfilled(ResultAsync_fromResult(promise.v.result, now))
         ELSE Fulfilled(ResultAsync_okAsync(PlainArg(promise.v.value), <<>>, now))
    ELSE Fulfilled(ResultAsync_failAsync(
            ObjArg([message |-> IF promise.reason.isError
                                THEN promise.reason.message ELSE "Promise rejected",
                    causedBy |-> IF promise.reason.isError
                                 THEN <<promise.reason>> ELSE <<>>,
                    timestamp |-> now]),
            <<>>, now))

\* Promise.all over promises that have settled
PromiseAll(promises) ==
    IF \E i \in 1..Len(promises) : promises[i].st = "rejected"
    THEN LET i == CHOOSE i \in 1..Len(promises) :
                    /\ promises[i].st = "rejected"
                    /\ \A j \in 1..(i - 1) : promises[j].st = "fulfilled"
         IN  Rejected(promises[i].reason)
    ELSE Fulfilled(<<[i \in 1..Len(promises) |-> promises[i].v]>>)

RECURSIVE asyncMergeLoop(_, _, _, _, _)
\* for (const result of results) { ... } and the statements after it
asyncMergeLoop(results, mergedResult, valuePromises, hasErrors, now) ==
    IF results = <<>>
    THEN IF hasErrors
         THEN [mergedResult EXCEPT !.isSuccess = FALSE,
                                   !.value = <<Fulfilled(<< <<>> >>)>>]
         ELSE [mergedResult EXCEPT !.value = <<PromiseAll(valuePromises)>>]
    ELSE LET result == Head(results)
         IN  asyncMergeLoop(
                Tail(results),
                [mergedResult EXCEPT
                    !.errors = IF isFailure(result)
                               THEN addAll(@, result.errors, now) ELSE @,
                    !.successes = addAllSuccesses(@, result.successes, now)],
                IF result.isSuccess /\ result.value # <<>>
                THEN Append(valuePromises, result.value[1]) ELSE valuePromises,
                hasErrors \/ isFailure(result),
                now)

ResultAsync_merge(results, now) ==
    asyncMergeLoop(results, ResultAsync_new(PlainArg(<<>>), <<>>, now), <<>>, FALSE, now)

----------------------------------------------------------------------------
(* AsyncUtils.combine (src/unnamed/part_003) *)

RECURSIVE combineLoop(_, _, _)
\* results.forEach((result) => { ... }): the errors and the values collected
combineLoop(results, errors, values) ==
    IF results = <<>> THEN [errors |-> errors, values |-> values]
    ELSE LET result == Head(results)
         IN  IF result.isSuccess
             THEN combineLoop(Tail(results), errors,
                              Append(values, Result_value(result).value))
             ELSE combineLoop(Tail(results), errors \o Result_errors(result), values)

\* combine(asyncResults, options), for inputs whose pending values have settled:
\* what the returned promise settles with
AsyncUtils_combine(asyncResults, options, now) ==
    LET results == PromiseAll([i \in 1..Len(asyncResults) |->
                        LET p == ResultAsync_toResult(asyncResults[i], now)
                        IN  IF p.st = "rejected" THEN p
                            ELSE Fulfilled(<<p.v>>)])
    IN  IF results.st = "rejected" THEN results
        ELSE LET collected == combineLoop(
                                [i \in 1..Len(asyncResults) |-> results.v[1][i][1]],
                                <<>>, <<>>)
             IN  IF Len(collected.errors) > 0
                 THEN Fulfilled(ResultAsync_failAsync(ArrArg(collected.errors), <<>>, now))
                 ELSE Fulfilled(ResultAsync_okAsync(
                        PlainArg(<<collected.values>>),
                        IF options = <<>> THEN <<<<>>>> ELSE options, now))

----------------------------------------------------------------------------
(* The caller: what it passes to the library *)

ErrorArgs ==
    {StrArg("a"), ObjArg([message |-> "b", reasonCode |-> "E1", timestamp |-> 1])}

FailArgs ==
    ErrorArgs \cup {ArrArg(<<>>), ArrArg(<<[message |-> "a"], [message |-> "b"]>>)}

\* the records fail(error) is asked to insert
Inserted_(error) == IF error.typeof = "array" THEN error.items ELSE <<ToIError(error)>>

SuccessArgs == {StrArg("s")}

MetadataArgs == {[message |-> "m"]}

ContextArgs == {[k |-> 1]}

\* the second argument of ok / okAsync: nothing, a metadata object, an options object
OkArgs ==
    {<<>>,
     <<[message |-> "m"]>>,
     <<[metadata |-> <<>>, defaultValueWhenFailure |-> TRUE]>>,
     <<[metadata |-> <<[message |-> "m"]>>, preserveErrorsOrder |-> FALSE]>>}

ValueSlots == {<<>>} \cup {<<v>> : v \in Values}

PromiseArgs ==
    {PlainArg(v) : v \in ValueSlots} \cup {PromiseArg(Rejected("x"))}

\* the function handed to map: swaps the two values, keeps undefined
MapFunc(v) == IF v = <<>> THEN <<>> ELSE <<3 - v[1]>>

\* the functions handed to bind
BindFuncs == {"ok", "fail"}

BindFunc(f, v, now) ==
    IF f = "ok"
    THEN ResultAsync_okAsync(PlainArg(MapFunc(v)), <<>>, now)
    ELSE IF f = "fail"
    THEN ResultAsync_failAsync(StrArg("a"), <<>>, now)
    ELSE ResultAsync_withSuccess(
            ResultAsync_okAsync(PlainArg(MapFunc(v)),
                <<[message |-> "own", requestId |-> "r", timestamp |-> 0]>>, now),
            StrArg("s"), now)

NoArg == <<>>

\* op: the operation; ret: what it returned (this, a new container, a value) or
\* that it threw; calls: how often it called the function it was given; val: the
\* value read or the argument given
Did(op, ret, calls, val) == [op |-> op, ret |-> ret, calls |-> calls, val |-> val]

Idle == pc = "idle" /\ out = <<>>

IsResult == cur # <<>> /\ cur[1].kind = "Result"
IsResultAsync == cur # <<>> /\ cur[1].kind = "ResultAsync"

----------------------------------------------------------------------------
(* Operations on the container the caller holds *)

Init ==
    /\ cur = <<>>
    /\ out = <<>>
    /\ clock = 1
    /\ last = Did("none", "none", 0, <<>>)
    /\ pc = "idle"
    /\ pending = <<>>
    /\ pool = <<>>
    /\ merged = <<>>
    /\ try = <<>>

Ok ==
    /\ Idle /\ cur = <<>>
    /\ \E value \in ValueSlots, arg \in OkArgs, now \in Nows :
        /\ cur' = <<Result_ok(value, arg, now)>>
        /\ clock' = now
    /\ last' = Did("ok", "new", 0, <<>>)
    /\ UNCHANGED <<out, pc, pending, pool, merged, try>>

Fail ==
    /\ Idle /\ cur = <<>>
    /\ \E error \in FailArgs, metadata \in {<<>>} \cup {<<m>> : m \in MetadataArgs},
          now \in Nows :
        /\ cur' = <<Result_fail(error, metadata, now)>>
        /\ clock' = now
        /\ last' = Did("fail", "new", 0, error)
    /\ UNCHANGED <<out, pc, pending, pool, merged, try>>

OkAsync ==
    /\ Idle /\ cur = <<>>
    /\ \E value \in PromiseArgs, arg \in OkArgs, now \in Nows :
        /\ cur' = <<ResultAsync_okAsync(value, arg, now)>>
        /\ clock' = now
    /\ last' = Did("okAsync", "new", 0, <<>>)
    /\ UNCHANGED <<out, pc, pending, pool, merged, try>>

FailAsync ==
    /\ Idle /\ cur = <<>>
    /\ \E error \in FailArgs, metadata \in {<<>>} \cup {<<m>> : m \in MetadataArgs},
          now \in Nows :
        /\ cur' = <<ResultAsync_failAsync(error, metadata, now)>>
        /\ clock' = now
        /\ last' = Did("failAsync", "new", 0, error)
    /\ UNCHANGED <<out, pc, pending, pool, merged, try>>

WithError ==
    /\ Idle /\ cur # <<>>
    /\ Len(cur[1].errors) + Len(cur[1].successes) < MaxRecords
    /\ \E error \in ErrorArgs, now \in Nows :
        /\ cur' = <<IF cur[1].kind = "Result"
                    THEN Result_withError(cur[1], error, now)
                    ELSE ResultAsync_withError(cur[1], error, now)>>
        /\ clock' = now
        /\ last' = Did("withError", "this", 0, ToIError(error))
    /\ UNCHANGED <<out, pc, pending, pool, merged, try>>

WithSuccess ==
    /\ Idle /\ cur # <<>>
    /\ Len(cur[1].errors) + Len(cur[1].successes) < MaxRecords
    /\ \E success \in SuccessArgs, now \in Nows :
        /\ cur' = <<IF cur[1].kind = "Result"
                    THEN Result_withSuccess(cur[1], success, now)
                    ELSE ResultAsync_withSuccess(cur[1], success, now)>>
        /\ clock' = now
    /\ last' = Did("withSuccess", "this", 0, <<>>)
    /\ UNCHANGED <<out, pc, pending, pool, merged, try>>

WithValue(value) ==
    /\ Idle /\ cur # <<>>
    /\ cur[1].kind = "Result" => ~value.isPromise
    /\ cur' = <<IF cur[1].kind = "Result"
                THEN Result_withValue(cur[1], value.v)
                ELSE ResultAsync_withValue(cur[1], value)>>
    /\ last' = Did("withValue", "this", 0, <<>>)
    /\ UNCHANGED <<out, clock, pc, pending, pool, merged, try>>

WithContext ==
    /\ Idle /\ cur # <<>>
    /\ \E context \in ContextArgs :
        cur' = <<IF cur[1].kind = "Result"
                 THEN Result_withContext(cur[1], context)
                 ELSE ResultAsync_withContext(cur[1], context)>>
    /\ last' = Did("withContext", "this", 0, <<>>)
    /\ UNCHANGED <<out, clock, pc, pending, pool, merged, try>>

WithMetadata ==
    /\ Idle /\ cur # <<>>
    /\ \E metadata \in MetadataArgs, now \in Nows :
        /\ cur' = <<IF cur[1].kind = "Result"
                    THEN Result_withMetadata(cur[1], metadata, now)
                    ELSE ResultAsync_withMetadata(cur[1], metadata, now)>>
        /\ clock' = now
    /\ last' = Did("withMetadata", "this", 0, <<>>)
    /\ UNCHANGED <<out, pc, pending, pool, merged, try>>

ClearErrors ==
    /\ Idle /\ cur # <<>>
    /\ cur' = <<IF cur[1].kind = "Result"
                THEN Result_clearErrors(cur[1])
                ELSE ResultAsync_clearErrors(cur[1])>>
    /\ last' = Did("clearErrors", "this", 0, <<>>)
    /\ UNCHANGED <<out, clock, pc, pending, pool, merged, try>>

\* const x = r.value, inside try / catch
ReadValue ==
    /\ Idle /\ cur # <<>>
    /\ last' = Did("value",
                   IF cur[1].kind = "Result"
                   THEN (IF Result_value(cur[1]).threw THEN "threw" ELSE "value")
                   ELSE (IF ResultAsync_value(cur[1]).threw THEN "threw" ELSE "value"),
                   0,
                   IF cur[1].kind = "Result"
                   THEN Result_value(cur[1])
                   ELSE ResultAsync_value(cur[1]))
    /\ UNCHANGED <<cur, out, clock, pc, pending, pool, merged, try>>

\* const es = r.errors
ReadErrors ==
    /\ Idle /\ cur # <<>>
    /\ last' = Did("errors", "value", 0,
                   IF cur[1].kind = "Result"
                   THEN Result_errors(cur[1])
                   ELSE ResultAsync_errors(cur[1]))
    /\ UNCHANGED <<cur, out, clock, pc, pending, pool, merged, try>>

FromResult ==
    /\ Idle /\ IsResult
    /\ \E now \in Nows :
        /\ out' = <<ResultAsync_fromResult(cur[1], now)>>
        /\ clock' = now
    /\ last' = Did("fromResult", "new", 0, <<>>)
    /\ UNCHANGED <<cur, pc, pending, pool, merged, try>>

\* fromResult(r).toResult(), the second call: out is what fromResult returned
ToResult ==
    /\ pc = "idle" /\ out # <<>>
    /\ last.op = "fromResult"
    /\ \E now \in Nows :
        /\ out' = <<ResultAsync_toResult(out[1], now).v>>
        /\ clock' = now
    /\ last' = Did("toResult", "new", 0, <<>>)
    /\ UNCHANGED <<cur, pc, pending, pool, merged, try>>

\* the promises handed to from: one resolving to the Result the caller holds,
\* to a plain value, or rejecting with an Error or with something else
FromArgs ==
    (IF IsResult THEN {Fulfilled(ResultValue(cur[1]))} ELSE {})
    \cup {Fulfilled(PlainValue(v)) : v \in ValueSlots}
    \cup {Rejected([isError |-> e, message |-> "boom"]) : e \in BOOLEAN}

\* await ResultAsync.from(promise)
From(promise) ==
    /\ Idle
    /\ \E now \in Nows :
        LET returned == ResultAsync_from(promise, now)
        IN  /\ out' = IF returned.st = "fulfilled" THEN <<returned.v>> ELSE <<>>
            /\ last' = Did("from",
                           IF returned.st = "fulfilled" THEN "new" ELSE "rejected",
                           0, <<>>)
            /\ clock' = now
    /\ UNCHANGED <<cur, pc, pending, pool, merged, try>>

\* the caller goes on with the container an operation returned
Adopt ==
    /\ pc = "idle" /\ out # <<>>
    /\ cur' = out
    /\ out' = <<>>
    /\ last' = Did("adopt", "none", 0, <<>>)
    /\ UNCHANGED <<clock, pc, pending, pool, merged, try>>

\* the caller drops the container an operation returned
Discard ==
    /\ pc = "idle" /\ out # <<>>
    /\ out' = <<>>
    /\ last' = Did("discard", "none", 0, <<>>)
    /\ UNCHANGED <<cur, clock, pc, pending, pool, merged, try>>

----------------------------------------------------------------------------
(* ResultAsync.map and ResultAsync.bind, one action per stretch of code between
   two awaits.  The caller awaits the call: nothing else touches the receiver
   while pc is not "idle". *)

\* map, up to its first await
MapCall ==
    /\ Idle /\ IsResultAsync
    /\ \E now \in Nows :
        /\ clock' = now
        /\ IF isFailure(cur[1])
           THEN /\ pending' = [result |->
                        ResultAsync_failAsync(ArrArg(ResultAsync_getErrors(cur[1])),
                                              <<>>, now),
                               calls |-> 0]
                /\ pc' = "map_failed"
                /\ last' = Did("map", "pending", 0, <<>>)
                /\ UNCHANGED out
           ELSE IF cur[1].value = <<>>
           THEN /\ out' = <<ResultAsync_failAsync(StrArg("No value present"), <<>>, now)>>
                /\ last' = Did("map", "new", 0, <<>>)
                /\ UNCHANGED <<pc, pending>>
           ELSE /\ pending' = [awaited |-> cur[1].value[1], calls |-> 0]
                /\ pc' = "map_value"
                /\ last' = Did("map", "pending", 0, <<>>)
                /\ UNCHANGED out
    /\ UNCHANGED <<cur, pool, merged, try>>

\* after await ResultAsync.failAsync(this.getErrors())
MapFailed ==
    /\ pc = "map_failed"
    /\ \E now \in Nows :
        /\ clock' = now
        /\ out' = <<IF cur[1].metadata # <<>>
                    THEN ResultAsync_withMetadata(pending.result, cur[1].metadata[1], now)
                    ELSE pending.result>>
    /\ last' = Did("map", "new", pending.calls, <<>>)
    /\ pc' = "idle"
    /\ pending' = <<>>
    /\ UNCHANGED <<cur, pool, merged, try>>

\* after await this._value: the call of func
MapValue ==
    /\ pc = "map_value"
    /\ IF pending.awaited.st = "rejected"
       THEN /\ last' = Did("map", "rejected", pending.calls, pending.awaited.reason)
            /\ pc' = "idle"
            /\ pending' = <<>>
       ELSE /\ pending' = [mappedValue |-> MapFunc(pending.awaited.v),
                           calls |-> pending.calls + 1]
            /\ pc' = "map_func"
            /\ UNCHANGED last
    /\ UNCHANGED <<cur, out, clock, pool, merged, try>>

\* after await func(value), up to await ResultAsync.okAsync(mappedValue)
MapFunc_ ==
    /\ pc = "map_func"
    /\ \E now \in Nows :
        /\ clock' = now
        /\ pending' = [result |->
                ResultAsync_okAsync(PlainArg(pending.mappedValue), <<>>, now),
                       calls |-> pending.calls]
    /\ pc' = "map_ok"
    /\ UNCHANGED <<cur, out, last, pool, merged, try>>

MapOkNoMetadata ==
    /\ pc = "map_ok"
    /\ \E now \in Nows :
        /\ clock' = now
        /\ out' = <<pending.result>>
    /\ last' = Did("map", "new", pending.calls, <<>>)
    /\ pc' = "idle"
    /\ pending' = <<>>
    /\ UNCHANGED <<cur, pool, merged, try>>

\* after await ResultAsync.okAsync(mappedValue)
MapOk ==
    /\ pc = "map_ok"
    /\ \E now \in Nows :
        /\ clock' = now
        /\ out' = <<IF cur[1].metadata # <<>>
                    THEN ResultAsync_withMetadata(pending.result, cur[1].metadata[1], now)
                    ELSE pending.result>>
    /\ last' = Did("map", "new", pending.calls, <<>>)
    /\ pc' = "idle"
    /\ pending' = <<>>
    /\ UNCHANGED <<cur, pool, merged, try>>

\* bind, up to its first await
BindCall ==
    /\ Idle /\ IsResultAsync
    /\ \E now \in Nows, f \in BindFuncs :
        /\ clock' = now
        /\ IF isFailure(cur[1])
           THEN /\ pending' = [result |->
                        ResultAsync_failAsync(ArrArg(ResultAsync_getErrors(cur[1])),
                                              <<>>, now),
                               calls |-> 0]
                /\ pc' = "bind_failed"
                /\ last' = Did("bind", "pending", 0, <<>>)
                /\ UNCHANGED out
           ELSE IF cur[1].value = <<>>
           THEN /\ out' = <<ResultAsync_failAsync(StrArg("No value present"), <<>>, now)>>
                /\ last' = Did("bind", "new", 0, <<>>)
                /\ UNCHANGED <<pc, pending>>
           ELSE /\ pending' = [awaited |-> cur[1].value[1], func |-> f, calls |-> 0]
                /\ pc' = "bind_value"
                /\ last' = Did("bind", "pending", 0, <<>>)
                /\ UNCHANGED out
    /\ UNCHANGED <<cur, pool, merged, try>>

\* after await ResultAsync.failAsync(this.getErrors())
BindFailed ==
    /\ pc = "bind_failed"
    /\ \E now \in Nows :
        /\ clock' = now
        /\ out' = <<IF cur[1].metadata # <<>>
                    THEN ResultAsync_withMetadata(pending.result, cur[1].metadata[1], now)
                    ELSE pending.result>>
    /\ last' = Did("bind", "new", pending.calls, <<>>)
    /\ pc' = "idle"
    /\ pending' = <<>>
    /\ UNCHANGED <<cur, pool, merged, try>>

\* after await this._value: the call of func
BindValue ==
    /\ pc = "bind_value"
    /\ IF pending.awaited.st = "rejected"
       THEN /\ last' = Did("bind", "rejected", pending.calls, pending.awaited.reason)
            /\ pc' = "idle"
            /\ pending' = <<>>
            /\ UNCHANGED clock
       ELSE /\ \E now \in Nows :
                /\ clock' = now
                /\ pending' = [result |-> BindFunc(pending.func, pending.awaited.v, now),
                               calls |-> pending.calls + 1]
            /\ pc' = "bind_func"
            /\ UNCHANGED last
    /\ UNCHANGED <<cur, out, pool, merged, try>>

BindFunc_OwnKeysWin ==
    /\ pc = "bind_func"
    /\ \E now \in Nows :
        /\ clock' = now
        /\ out' = <<IF cur[1].metadata # <<>>
                    THEN [pending.result EXCEPT !.metadata =
                            <<Spread(cur[1].metadata[1],
                                     IF @ = <<>> THEN <<>> ELSE @[1])>>]
                    ELSE pending.result>>
    /\ last' = Did("bind", "func", pending.calls, <<>>)
    /\ pc' = "idle"
    /\ pending' = <<>>
    /\ UNCHANGED <<cur, pool, merged, try>>

\* after await func(value)
BindFunc_ ==
    /\ pc = "bind_func"
    /\ \E now \in Nows :
        /\ clock' = now
        /\ out' = <<IF cur[1].metadata # <<>>
                    THEN ResultAsync_withMetadata(pending.result, cur[1].metadata[1], now)
                    ELSE pending.result>>
    /\ last' = Did("bind", "func", pending.calls, <<>>)
    /\ pc' = "idle"
    /\ pending' = <<>>
    /\ UNCHANGED <<cur, pool, merged, try>>

Next ==
    \/ Ok \/ Fail \/ OkAsync \/ FailAsync
    \/ WithError \/ WithSuccess \/ WithContext \/ WithMetadata
    \/ (\E value \in PromiseArgs : WithValue(value))
    \/ ClearErrors \/ ReadValue \/ ReadErrors
    \/ FromResult \/ ToResult \/ Adopt \/ Discard
    \/ MapCall \/ MapFailed \/ MapValue \/ MapFunc_ \/ MapOk
    \/ BindCall \/ BindFailed \/ BindValue \/ BindFunc_

Spec == Init /\ [][Next]_vars

----------------------------------------------------------------------------
(* Result.merge over a list of Results the caller has built.  The list is built
   at one instant; time may pass before merge is called. *)

\* the second argument of ok for the Results of the list
PoolOkArgs == {<<>>, <<[metadata |-> <<>>, preserveErrorsOrder |-> FALSE]>>}

PoolRecords ==
    LET n[i \in 0..Len(pool)] ==
            IF i = 0 THEN 0
            ELSE n[i - 1] + Len(pool[i].errors) + Len(pool[i].successes)
    IN  n[Len(pool)]

Building == merged = <<>>

PoolOk ==
    /\ Building /\ Len(pool) < MaxPool
    /\ \E value \in ValueSlots, arg \in PoolOkArgs :
        pool' = Append(pool, Result_ok(value, arg, clock))
    /\ UNCHANGED <<cur, out, clock, last, pc, pending, merged, try>>

PoolFail ==
    /\ Building /\ Len(pool) < MaxPool
    /\ \E error \in FailArgs :
        /\ PoolRecords + Len(Inserted_(error)) <= MaxRecords
        /\ pool' = Append(pool, Result_fail(error, <<>>, clock))
    /\ UNCHANGED <<cur, out, clock, last, pc, pending, merged, try>>

PoolWithError ==
    /\ Building /\ PoolRecords < MaxRecords
    /\ \E i \in 1..Len(pool), error \in ErrorArgs :
        pool' = [pool EXCEPT ![i] = Result_withError(@, error, clock)]
    /\ UNCHANGED <<cur, out, clock, last, pc, pending, merged, try>>

PoolWithSuccess ==
    /\ Building /\ PoolRecords < MaxRecords
    /\ \E i \in 1..Len(pool), success \in SuccessArgs :
        pool' = [pool EXCEPT ![i] = Result_withSuccess(@, success, clock)]
    /\ UNCHANGED <<cur, out, clock, last, pc, pending, merged, try>>

PoolClearErrors ==
    /\ Building
    /\ \E i \in 1..Len(pool) :
        pool' = [pool EXCEPT ![i] = Result_clearErrors(@)]
    /\ UNCHANGED <<cur, out, clock, last, pc, pending, merged, try>>

Merge ==
    /\ Building
    /\ \E now \in Nows :
        /\ merged' = <<Result_merge(pool, now)>>
        /\ clock' = now
    /\ UNCHANGED <<cur, out, last, pc, pending, pool, try>>

\* the caller starts over with a new list
MergeAgain ==
    /\ merged # <<>>
    /\ merged' = <<>>
    /\ pool' = <<>>
    /\ UNCHANGED <<cur, out, clock, last, pc, pending, try>>

NextMerge ==
    \/ PoolOk \/ PoolFail \/ PoolWithError \/ PoolWithSuccess \/ PoolClearErrors
    \/ Merge \/ MergeAgain

SpecMerge == Init /\ [][NextMerge]_vars

----------------------------------------------------------------------------
(* The factories and the stamping operations on one container, with arguments
   that carry their own timestamps and options, and a clock that moves between
   the calls.  Timestamp 0 is a date before the first call. *)

FluentNows == {t \in {clock, clock + 1} : t <= MaxClock + 1}

FluentValues == {<<>>, <<1>>}

\* the second argument of ok / okAsync
FluentOkArgs ==
    {<<>>,
     <<<<>>>>,
     <<[message |-> "m"]>>,
     <<[defaultValueWhenFailure |-> TRUE]>>,
     <<[metadata |-> <<>>, preserveErrorsOrder |-> FALSE]>>,
     <<[metadata |-> <<[message |-> "m", timestamp |-> 0]>>,
        defaultValueWhenFailure |-> TRUE]>>}

FluentSuccessArgs ==
    {StrArg("s"), ObjArg([message |-> "t", timestamp |-> 0])}

FluentMetadataArgs ==
    {[message |-> "n"], [requestId |-> "r", timestamp |-> 0]}

Records(c) == Len(c.errors) + Len(c.successes)

FluentOk(arg) ==
    /\ cur = <<>>
    /\ \E value \in FluentValues, now \in FluentNows :
        /\ cur' = <<Result_ok(value, arg, now)>>
        /\ clock' = now
    /\ last' = Did("ok", "new", 0, <<>>)
    /\ UNCHANGED <<out, pc, pending, pool, merged, try>>

FluentOkAsync(arg) ==
    /\ cur = <<>>
    /\ \E value \in FluentValues, now \in FluentNows :
        /\ cur' = <<ResultAsync_okAsync(PlainArg(value), arg, now)>>
        /\ clock' = now
    /\ last' = Did("okAsync", "new", 0, <<>>)
    /\ UNCHANGED <<out, pc, pending, pool, merged, try>>

FluentWithError ==
    /\ cur # <<>> /\ Records(cur[1]) < MaxRecords
    /\ \E now \in FluentNows :
        /\ cur' = <<IF cur[1].kind = "Result"
                    THEN Result_withError(cur[1], StrArg("a"), now)
                    ELSE ResultAsync_withError(cur[1], StrArg("a"), now)>>
        /\ clock' = now
    /\ last' = Did("withError", "this", 0, <<>>)
    /\ UNCHANGED <<out, pc, pending, pool, merged, try>>

FluentWithSuccess(success) ==
    /\ cur # <<>> /\ Records(cur[1]) < MaxRecords
    /\ \E now \in FluentNows :
        /\ cur' = <<IF cur[1].kind = "Result"
                    THEN Result_withSuccess(cur[1], success, now)
                    ELSE ResultAsync_withSuccess(cur[1], success, now)>>
        /\ clock' = now
    /\ last' = Did("withSuccess", "this", 0, <<>>)
    /\ UNCHANGED <<out, pc, pending, pool, merged, try>>

FluentWithMetadata(metadata) ==
    /\ cur # <<>>
    /\ \E now \in FluentNows :
        /\ cur' = <<IF cur[1].kind = "Result"
                    THEN Result_withMetadata(cur[1], metadata, now)
                    ELSE ResultAsync_withMetadata(cur[1], metadata, now)>>
        /\ clock' = now
    /\ last' = Did("withMetadata", "this", 0, <<>>)
    /\ UNCHANGED <<out, pc, pending, pool, merged, try>>

NextFluent ==
    \/ (\E arg \in FluentOkArgs : FluentOk(arg))
    \/ (\E arg \in FluentOkArgs : FluentOkAsync(arg))
    \/ FluentWithError
    \/ (\E success \in FluentSuccessArgs : FluentWithSuccess(success))
    \/ (\E metadata \in FluentMetadataArgs : FluentWithMetadata(metadata))

SpecFluent == Init /\ [][NextFluent]_vars

----------------------------------------------------------------------------
(* withContext on one container whose errors may carry a context already. *)

ContextErrorArgs ==
    {StrArg("a"), ObjArg([message |-> "b", context |-> [k |-> 0]])}

ContextArgs2 == {[k |-> 1], [j |-> 2]}

CtxOk ==
    /\ cur = <<>>
    /\ \E arg \in PoolOkArgs :
        cur' = <<Result_ok(<<1>>, arg, clock)>>
    /\ last' = Did("ok", "new", 0, <<>>)
    /\ UNCHANGED <<out, clock, pc, pending, pool, merged, try>>

CtxOkAsync ==
    /\ cur = <<>>
    /\ \E arg \in PoolOkArgs :
        cur' = <<ResultAsync_okAsync(PlainArg(<<1>>), arg, clock)>>
    /\ last' = Did("okAsync", "new", 0, <<>>)
    /\ UNCHANGED <<out, clock, pc, pending, pool, merged, try>>

CtxWithError ==
    /\ cur # <<>> /\ Records(cur[1]) < MaxRecords + 1
    /\ \E error \in ContextErrorArgs :
        cur' = <<IF cur[1].kind = "Result"
                 THEN Result_withError(cur[1], error, clock)
                 ELSE ResultAsync_withError(cur[1], error, clock)>>
    /\ last' = Did("withError", "this", 0, <<>>)
    /\ UNCHANGED <<out, clock, pc, pending, pool, merged, try>>

CtxWithSuccess ==
    /\ cur # <<>> /\ Records(cur[1]) < MaxRecords + 1
    /\ cur' = <<IF cur[1].kind = "Result"
                THEN Result_withSuccess(cur[1], StrArg("s"), clock)
                ELSE ResultAsync_withSuccess(cur[1], StrArg("s"), clock)>>
    /\ last' = Did("withSuccess", "this", 0, <<>>)
    /\ UNCHANGED <<out, clock, pc, pending, pool, merged, try>>

CtxWithContext(context) ==
    /\ cur # <<>>
    /\ cur' = <<IF cur[1].kind = "Result"
                THEN Result_withContext(cur[1], context)
                ELSE ResultAsync_withContext(cur[1], context)>>
    /\ last' = Did("withContext", "this", 0, <<>>)
    /\ UNCHANGED <<out, clock, pc, pending, pool, merged, try>>

CtxClearErrors ==
    /\ cur # <<>> /\ cur[1].errors # <<>>
    /\ cur' = <<IF cur[1].kind = "Result"
                THEN Result_clearErrors(cur[1])
                ELSE ResultAsync_clearErrors(cur[1])>>
    /\ last' = Did("clearErrors", "this", 0, <<>>)
    /\ UNCHANGED <<out, clock, pc, pending, pool, merged, try>>

NextContext ==
    \/ CtxOk \/ CtxOkAsync \/ CtxWithError \/ CtxWithSuccess \/ CtxClearErrors
    \/ (\E context \in ContextArgs2 : CtxWithContext(context))

SpecContext == Init /\ [][NextContext]_vars

----------------------------------------------------------------------------
(* ResultAsync.from, called with promises that have settled; the Result such a
   promise may resolve to is the one the caller has built. *)

NextFrom ==
    \/ CtxOk \/ CtxWithError \/ CtxWithSuccess \/ CtxClearErrors
    \/ (\E promise \in FromArgs : From(promise))
    \/ Discard

SpecFrom == Init /\ [][NextFrom]_vars

----------------------------------------------------------------------------
(* ResultAsync.merge and AsyncUtils.combine over a list of ResultAsyncs the
   caller has built and whose pending values have settled.  merged records
   which of the two was called and what the returned promise settled with. *)

CombineOptions == {<<>>, <<[metadata |-> <<>>, defaultValueWhenFailure |-> TRUE]>>}

AsyncPoolOk ==
    /\ Building /\ Len(pool) < MaxPool
    /\ \E value \in PromiseArgs, arg \in PoolOkArgs :
        pool' = Append(pool, ResultAsync_okAsync(value, arg, clock))
    /\ UNCHANGED <<cur, out, clock, last, pc, pending, merged, try>>

AsyncPoolFail ==
    /\ Building /\ Len(pool) < MaxPool
    /\ \E error \in FailArgs :
        /\ PoolRecords + Len(Inserted_(error)) <= MaxRecords
        /\ pool' = Append(pool, ResultAsync_failAsync(error, <<>>, clock))
    /\ UNCHANGED <<cur, out, clock, last, pc, pending, merged, try>>

AsyncPoolWithError ==
    /\ Building /\ PoolRecords < MaxRecords
    /\ \E i \in 1..Len(pool), error \in ErrorArgs :
        pool' = [pool EXCEPT ![i] = ResultAsync_withError(@, error, clock)]
    /\ UNCHANGED <<cur, out, clock, last, pc, pending, merged, try>>

AsyncPoolWithSuccess ==
    /\ Building /\ PoolRecords < MaxRecords
    /\ \E i \in 1..Len(pool), success \in SuccessArgs :
        pool' = [pool EXCEPT ![i] = ResultAsync_withSuccess(@, success, clock)]
    /\ UNCHANGED <<cur, out, clock, last, pc, pending, merged, try>>

AsyncPoolClearErrors ==
    /\ Building
    /\ \E i \in 1..Len(pool) :
        pool' = [pool EXCEPT ![i] = ResultAsync_clearErrors(@)]
    /\ UNCHANGED <<cur, out, clock, last, pc, pending, merged, try>>

Combine ==
    /\ Building
    /\ \E options \in CombineOptions, now \in Nows :
        /\ merged' = <<[op |-> "combine", p |-> AsyncUtils_combine(pool, options, now)]>>
        /\ clock' = now
    /\ UNCHANGED <<cur, out, last, pc, pending, pool, try>>

MergeAsync ==
    /\ Building
    /\ \E now \in Nows :
        /\ merged' = <<[op |-> "merge", p |-> Fulfilled(ResultAsync_merge(pool, now))]>>
        /\ clock' = now
    /\ UNCHANGED <<cur, out, last, pc, pending, pool, try>>

NextAsyncPool ==
    \/ AsyncPoolOk \/ AsyncPoolFail \/ AsyncPoolWithError \/ AsyncPoolWithSuccess
    \/ AsyncPoolClearErrors \/ Combine \/ MergeAsync \/ MergeAgain

SpecAsyncPool == Init /\ [][NextAsyncPool]_vars

----------------------------------------------------------------------------
(* AsyncUtils.tryAsync (src/unnamed/part_003).  One call: try holds its
   arguments, its locals (attempts, lastError), its position pc and what it
   returned.  The action is given by what its i-th invocation settles with
   (script[i]).  Timers are the attempts whose timeout timer has not fired
   yet, running the attempts whose action has not settled yet.  invocations,
   delays and timedOut only record what happened. *)

\* what one invocation of the action settles with
Outcomes ==
    {[kind |-> "resolve", v |-> v] : v \in Values}
    \cup {[kind |-> "reject", isError |-> TRUE, message |-> m] :
            m \in {"boom", "Operation timed out"}}
    \cup {[kind |-> "reject", isError |-> FALSE, message |-> "boom"]}

\* the value thrown by the i-th invocation: an Error object or something else
Thrown(outcome, i) ==
    [isError |-> outcome.isError, message |-> outcome.message, by |-> "action", at |-> i]

\* new Error("Operation timed out"), made by the timer of the i-th attempt
TimeoutError(i) ==
    [isError |-> TRUE, message |-> "Operation timed out", by |-> "timer", at |-> i]

DelayArgs == {0, 1}
TimeoutArgs == {<<>>, <<0>>, <<1>>}

\* if (timeoutMs)
TimerWanted(t) == t.timeoutMs # <<>> /\ t.timeoutMs[1] # 0

TryCalls ==
    {[pc |-> "attempt", script |-> sc, maxAttempts |-> n, delayMs |-> d,
      timeoutMs |-> tm, attempts |-> 0, lastError |-> <<>>, result |-> <<>>,
      timers |-> {}, running |-> {}, invocations |-> 0, delays |-> 0,
      timedOut |-> FALSE] :
        n \in (-1)..MaxAttempts, d \in DelayArgs, tm \in TimeoutArgs,
        sc \in [1..MaxAttempts -> Outcomes]}

\* the statements after the loop
tryAsync_exhausted(t, now) ==
    LET lastError == t.lastError[1]
    IN  [t EXCEPT
            !.pc = "done",
            !.result = <<Result_fail(
                ObjArg([message |-> IF lastError.isError THEN lastError.message
                                    ELSE "Operation failed after retries",
                        causedBy |-> IF lastError.isError THEN <<lastError>> ELSE <<>>,
                        context |-> [attempts |-> t.attempts,
                                     maxAttempts |-> t.maxAttempts,
                                     delayMs |-> t.delayMs,
                                     timeoutMs |-> t.timeoutMs]]),
                <<>>, now)>>]

\* while (++attempts < maxAttempts)
tryAsync_while(t, now) ==
    IF t.attempts + 1 < t.maxAttempts
    THEN [t EXCEPT !.attempts = @ + 1, !.pc = "attempt"]
    ELSE tryAsync_exhausted([t EXCEPT !.attempts = @ + 1], now)

tryAsync_catchRetriesTimeout(t, error, now) ==
    IF t.attempts + 1 < t.maxAttempts /\ t.delayMs > 0
    THEN [t EXCEPT !.lastError = <<error>>, !.pc = "delay", !.delays = @ + 1]
    ELSE tryAsync_while([t EXCEPT !.lastError = <<error>>], now)

tryAsync_catchSkipsFinalDelay(t, error, now) ==
    IF error.isError /\ error.message = "Operation timed out"
    THEN [t EXCEPT
            !.lastError = <<error>>,
            !.pc = "done",
            !.result = <<Result_fail(
                ObjArg([message |-> "Operation timed out",
                        context |-> [timeoutMs |-> t.timeoutMs]]),
                <<>>, now)>>]
    ELSE IF t.attempts + 2 < t.maxAttempts /\ t.delayMs > 0
    THEN [t EXCEPT !.lastError = <<error>>, !.pc = "delay", !.delays = @ + 1]
    ELSE tryAsync_while([t EXCEPT !.lastError = <<error>>], now)

\* catch (error) { ... }
tryAsync_catch(t, error, now) ==
    IF error.isError /\ error.message = "Operation timed out"
    THEN [t EXCEPT
            !.lastError = <<error>>,
            !.pc = "done",
            !.result = <<Result_fail(
                ObjArg([message |-> "Operation timed out",
                        context |-> [timeoutMs |-> t.timeoutMs]]),
                <<>>, now)>>]
    ELSE IF t.attempts + 1 < t.maxAttempts /\ t.delayMs > 0
    THEN [t EXCEPT !.lastError = <<error>>, !.pc = "delay", !.delays = @ + 1]
    ELSE tryAsync_while([t EXCEPT !.lastError = <<error>>], now)

InitTry ==
    /\ cur = <<>>
    /\ out = <<>>
    /\ clock = 1
    /\ last = Did("none", "none", 0, <<>>)
    /\ pc = "idle"
    /\ pending = <<>>
    /\ pool = <<>>
    /\ merged = <<>>
    /\ try \in TryCalls

\* the try block up to its await: the timer is set, the action is called
TryInvoke ==
    /\ try.pc = "attempt"
    /\ try' = [try EXCEPT
                !.invocations = @ + 1,
                !.running = @ \cup {try.invocations + 1},
                !.timers = IF TimerWanted(try) THEN @ \cup {try.invocations + 1} ELSE @,
                !.pc = IF TimerWanted(try) THEN "racing" ELSE "awaiting"]
    /\ UNCHANGED <<cur, out, clock, last, pc, pending, pool, merged>>

\* the action settles first (or there is no timer)
TrySettled ==
    /\ try.pc \in {"racing", "awaiting"}
    /\ LET outcome == try.script[try.invocations]
           settled == [try EXCEPT !.running = @ \ {try.invocations}]
       IN  try' = IF outcome.kind = "resolve"
                  THEN [settled EXCEPT !.pc = "done",
                                       !.result = <<Result_ok(<<outcome.v>>, <<>>, clock)>>]
                  ELSE tryAsync_catch(settled, Thrown(outcome, try.invocations), clock)
    /\ UNCHANGED <<cur, out, clock, last, pc, pending, pool, merged>>

\* the timer of the current attempt fires before the action settles
TryTimedOut ==
    /\ try.pc = "racing"
    /\ try.invocations \in try.timers
    /\ try' = tryAsync_catch(
                [try EXCEPT !.timers = @ \ {try.invocations}, !.timedOut = TRUE],
                TimeoutError(try.invocations), clock)
    /\ UNCHANGED <<cur, out, clock, last, pc, pending, pool, merged>>

TryLateTimerShared ==
    /\ \E i \in try.timers :
        /\ ~(try.pc = "racing" /\ i = try.invocations)
        /\ try' = IF try.pc = "racing"
                  THEN tryAsync_catch(
                        [try EXCEPT !.timers = @ \ {i}, !.timedOut = TRUE],
                        TimeoutError(i), clock)
                  ELSE [try EXCEPT !.timers = @ \ {i}]
    /\ UNCHANGED <<cur, out, clock, last, pc, pending, pool, merged>>

\* a timer fires whose race is over: its rejection has no one waiting
TryLateTimer ==
    /\ \E i \in try.timers :
        /\ ~(try.pc = "racing" /\ i = try.invocations)
        /\ try' = [try EXCEPT !.timers = @ \ {i}]
    /\ UNCHANGED <<cur, out, clock, last, pc, pending, pool, merged>>

\* the action of an attempt that timed out settles: the race is over and its
\* settlement has no one waiting
TryLateAction ==
    /\ \E i \in try.running :
        /\ ~(try.pc \in {"racing", "awaiting"} /\ i = try.invocations)
        /\ try' = [try EXCEPT !.running = @ \ {i}]
    /\ UNCHANGED <<cur, out, clock, last, pc, pending, pool, merged>>

\* the delay between two attempts is over
TryDelayed ==
    /\ try.pc = "delay"
    /\ try' = tryAsync_while(try, clock)
    /\ UNCHANGED <<cur, out, clock, last, pc, pending, pool, merged>>

NextTry ==
    \/ TryInvoke \/ TrySettled \/ TryTimedOut \/ TryLateTimer \/ TryLateAction
    \/ TryDelayed

SpecTry == InitTry /\ [][NextTry]_vars

----------------------------------------------------------------------------
(* AsyncUtils.retry (src/unnamed/part_003).  One call: try holds its arguments,
   its locals (attempts, lastError), its position pc and what it returned.
   invocations and delays only record what happened. *)

\* what one invocation of the action settles with
RetryOutcomes ==
    {[kind |-> "resolve", v |-> v] : v \in Values}
    \cup {[kind |-> "reject", isError |-> e, message |-> "boom"] : e \in BOOLEAN}

RetryCalls ==
    {[pc |-> "while", script |-> sc, retries |-> n, delay |-> d,
      attempts |-> 0, lastError |-> <<>>, result |-> <<>>,
      invocations |-> 0, delays |-> 0] :
        n \in (-1)..MaxAttempts, d \in DelayArgs,
        sc \in [1..(MaxAttempts + 1) -> RetryOutcomes]}

\* the statements after the loop
retry_exhausted(t, now) ==
    [t EXCEPT
        !.pc = "done",
        !.result = <<Result_fail(
            ObjArg([message |-> "Max retries reached",
                    causedBy |-> IF t.lastError # <<>> /\ t.lastError[1].isError
                                 THEN t.lastError ELSE <<>>,
                    context |-> [retries |-> t.retries,
                                 attempts |-> t.attempts,
                                 finalAttempt |-> TRUE]]),
            <<>>, now)>>]

retry_whileBelow(t, now) ==
    IF t.attempts < t.retries
    THEN [t EXCEPT !.pc = "try"]
    ELSE retry_exhausted(t, now)

\* while (attempts <= retries)
retry_while(t, now) ==
    IF t.attempts <= t.retries
    THEN [t EXCEPT !.pc = "try"]
    ELSE retry_exhausted(t, now)

\* catch (error) { ... }
retry_catch(t, error) ==
    [t EXCEPT
        !.lastError = <<error>>,
        !.attempts = @ + 1,
        !.pc = IF t.attempts + 1 <= t.retries THEN "delay" ELSE "while",
        !.delays = IF t.attempts + 1 <= t.retries THEN @ + 1 ELSE @]

InitRetry ==
    /\ cur = <<>>
    /\ out = <<>>
    /\ clock = 1
    /\ last = Did("none", "none", 0, <<>>)
    /\ pc = "idle"
    /\ pending = <<>>
    /\ pool = <<>>
    /\ merged = <<>>
    /\ try \in RetryCalls

\* the loop condition, and the return when it fails
RetryWhile ==
    /\ try.pc = "while"
    /\ try' = retry_while(try, clock)
    /\ UNCHANGED <<cur, out, clock, last, pc, pending, pool, merged>>

\* the try block up to its await: the action is called
RetryInvoke ==
    /\ try.pc = "try"
    /\ try' = [try EXCEPT !.invocations = @ + 1, !.pc = "awaiting"]
    /\ UNCHANGED <<cur, out, clock, last, pc, pending, pool, merged>>

\* the action settles
RetrySettled ==
    /\ try.pc = "awaiting"
    /\ LET outcome == try.script[try.invocations]
       IN  try' = IF outcome.kind = "resolve"
                  THEN [try EXCEPT !.pc = "done",
                                   !.result = <<Result_ok(<<outcome.v>>, <<>>, clock)>>]
                  ELSE retry_catch(try, Thrown(outcome, try.invocations))
    /\ UNCHANGED <<cur, out, clock, last, pc, pending, pool, merged>>

\* the delay between two invocations is over
RetryDelayed ==
    /\ try.pc = "delay"
    /\ try' = [try EXCEPT !.pc = "while"]
    /\ UNCHANGED <<cur, out, clock, last, pc, pending, pool, merged>>

NextRetry ==
    \/ RetryWhile \/ RetryInvoke \/ RetrySettled \/ RetryDelayed

SpecRetry == InitRetry /\ [][NextRetry]_vars

----------------------------------------------------------------------------
(* Properties of the containers *)

\* the errors accessor of either class
Errors(c) == IF c.kind = "Result" THEN Result_errors(c) ELSE ResultAsync_errors(c)

Messages_(es) == [i \in 1..Len(es) |-> es[i].message]

\* C1: reading `value` on a failure container throws 'Cannot get value from
\* failed result' when defaultValueWhenFailure is false; when the option is true
\* the read never throws and returns what the value slot holds.
C1_ValueRead ==
    (last.op = "value" /\ cur # <<>>) =>
        /\ (isFailure(cur[1]) /\ ~cur[1].options.defaultValueWhenFailure) =>
                /\ last.ret = "threw"
                /\ last.val.message = "Cannot get value from failed result"
        /\ cur[1].options.defaultValueWhenFailure =>
                /\ last.ret = "value"
                /\ last.val.value = cur[1].value

C1_Witness ==
    /\ last.op = "value" /\ cur # <<>>
    /\ isFailure(cur[1])
    /\ cur[1].options.defaultValueWhenFailure
    /\ cur[1].value # <<>>
    /\ last.ret = "value"

\* C2: withError(e) leaves the container in failure status whatever its status
\* was, and appends exactly one record, e, at the end of the stored errors.
C2_WithError ==
    [][last'.op = "withError" =>
        /\ isFailure(cur'[1])
        /\ Len(cur'[1].errors) = Len(cur[1].errors) + 1
        /\ SubSeq(cur'[1].errors, 1, Len(cur[1].errors)) = cur[1].errors
        /\ cur'[1].errors[Len(cur'[1].errors)].message = last'.val.message]_vars

C2_Witness ==
    /\ last.op = "withError" /\ cur # <<>>
    /\ Len(cur[1].errors) = 2
    /\ cur[1].errors[1].message # cur[1].errors[2].message

\* C3: a container whose status is failure holds at least one error record.
C3_FailureHasError ==
    \A c \in {cur, out} : (c # <<>> /\ isFailure(c[1])) => Len(c[1].errors) >= 1

\* C5: the errors accessor gives insertion order when preserveErrorsOrder is
\* true and the reverse of insertion order when it is false: after fail(es) it
\* reads es in order (fail sets no option); after withError(e) it reads the
\* previous read with e put last, respectively first; the stored sequence has
\* e last in both cases.
C5_ErrorsOrder ==
    [][/\ last'.op \in {"fail", "failAsync"} =>
            Messages_(Errors(cur'[1])) = Messages_(Inserted_(last'.val))
       /\ last'.op = "withError" =>
            LET e == cur'[1].errors[Len(cur'[1].errors)]
            IN  /\ e.message = last'.val.message
                /\ cur'[1].errors = Append(cur[1].errors, e)
                /\ Errors(cur'[1]) =
                        IF cur[1].options.preserveErrorsOrder
                        THEN Append(Errors(cur[1]), e)
                        ELSE <<e>> \o Errors(cur[1])]_vars

C5_Witness ==
    /\ last.op = "withError" /\ cur # <<>>
    /\ ~cur[1].options.preserveErrorsOrder
    /\ Len(cur[1].errors) = 2
    /\ cur[1].errors[1].message # cur[1].errors[2].message

\* what withValue(value) stores in the value slot of a container of this kind
Stored(kind, value) ==
    IF kind = "Result" THEN value.v
    ELSE IF value.isPromise THEN <<value.p>> ELSE <<Fulfilled(value.v)>>

\* C6: withValue(v) replaces the stored value when the status is success and
\* changes nothing at all on a failure container.
C6_WithValue ==
    [][\A value \in PromiseArgs : WithValue(value) =>
            IF cur[1].isSuccess
            THEN cur'[1] = [cur[1] EXCEPT !.value = Stored(cur[1].kind, value)]
            ELSE cur'[1] = cur[1]]_vars

C6_Witness ==
    /\ last.op = "withValue" /\ cur # <<>>
    /\ isFailure(cur[1])
    /\ cur[1].value # <<>>
    /\ cur[1].successes # <<>>

\* C7: clearErrors() leaves an empty error sequence and status success, and
\* leaves value, successes, metadata and options as they were.
C7_ClearErrors ==
    [][last'.op = "clearErrors" =>
        /\ cur'[1].errors = <<>>
        /\ cur'[1].isSuccess
        /\ cur'[1].value = cur[1].value
        /\ cur'[1].successes = cur[1].successes
        /\ cur'[1].metadata = cur[1].metadata
        /\ cur'[1].options = cur[1].options]_vars

C7_Witness ==
    /\ last.op = "clearErrors" /\ cur # <<>>
    /\ cur[1].successes # <<>>
    /\ cur[1].metadata # <<>>
    /\ cur[1].value # <<>>
    /\ ~cur[1].options.preserveErrorsOrder

\* what a completed map or bind returned for a receiver in failure status
C8_Returned ==
    (last.op \in {"map", "bind"} /\ last.ret # "pending" /\ out # <<>>
        /\ isFailure(cur[1])) =>
            /\ last.calls = 0
            /\ last.ret = "new"
            /\ isFailure(out[1])
            /\ ResultAsync_errors(out[1]) = ResultAsync_errors(cur[1])
            /\ out[1].metadata = cur[1].metadata

\* C8: on a ResultAsync in failure status, map and bind do not call func and
\* return a new container in failure status with the receiver's errors read
\* and the receiver's metadata; the receiver is unchanged.
C8_ShortCircuit ==
    /\ []C8_Returned
    /\ [][last'.op \in {"map", "bind"} => cur' = cur]_vars

C8_Witness ==
    /\ last.op = "map" /\ last.ret = "new" /\ out # <<>>
    /\ isFailure(cur[1])
    /\ cur[1].metadata # <<>>
    /\ ~cur[1].options.preserveErrorsOrder
    /\ Len(cur[1].errors) = 2
    /\ cur[1].errors[1].message # cur[1].errors[2].message

----------------------------------------------------------------------------
(* Properties of Result.merge *)

AllSucceed(rs) == \A i \in 1..Len(rs) : rs[i].isSuccess

\* the values of rs in input order, without the inputs whose value is absent
PresentValues(rs) ==
    LET present == SelectSeq(rs, LAMBDA r : r.value # <<>>)
    IN  [i \in 1..Len(present) |-> present[i].value[1]]

RECURSIVE FailingErrors(_)
\* the stored errors of the failing inputs of rs, concatenated in input order
FailingErrors(rs) ==
    IF rs = <<>> THEN <<>>
    ELSE (IF Head(rs).isSuccess THEN <<>> ELSE Head(rs).errors)
            \o FailingErrors(Tail(rs))

\* C4: Result.merge(rs) is success with the present values of rs in input order
\* when every input is success; otherwise it is failure, its errors are the
\* errors of all failing inputs concatenated in input order, and its value
\* cannot be read (no value is stored).
C4_Merge ==
    merged # <<>> =>
        IF AllSucceed(pool)
        THEN /\ merged[1].isSuccess
             /\ ~Result_value(merged[1]).threw
             /\ Result_value(merged[1]).value = <<PresentValues(pool)>>
             /\ Result_errors(merged[1]) = <<>>
        ELSE /\ isFailure(merged[1])
             /\ Result_errors(merged[1]) = FailingErrors(pool)
             /\ Result_value(merged[1]).threw
             /\ merged[1].value = <<>>

C4_Witness ==
    /\ merged # <<>>
    /\ Len(pool) = 2
    /\ isFailure(pool[1]) /\ isFailure(pool[2])
    /\ pool[1].errors # <<>> /\ pool[2].errors # <<>>
    /\ pool[1].value # <<>>

C4_WitnessValues ==
    /\ merged # <<>>
    /\ Len(pool) = 2
    /\ AllSucceed(pool)
    /\ pool[1].value = <<>> /\ pool[2].value # <<>>

----------------------------------------------------------------------------
(* Properties of tryAsync *)

\* the first invocation, among the first n, that resolves; 0 if all reject
FirstResolve(sc, n) ==
    IF \E k \in 1..n : sc[k].kind = "resolve"
    THEN CHOOSE k \in 1..n :
            sc[k].kind = "resolve" /\ \A j \in 1..(k - 1) : sc[j].kind = "reject"
    ELSE 0

\* C9: with maxAttempts = n >= 1 and no attempt ended by the timeout, an action
\* that rejects k - 1 times and then resolves with v (k <= n) is invoked k times
\* and gives a success holding v; an action that rejects n times is invoked n
\* times and gives a failure whose single error has context attempts = n and
\* maxAttempts = n and the last rejection as its cause.
C9_TryAsyncRetries ==
    (try.pc = "done" /\ try.maxAttempts >= 1 /\ ~try.timedOut) =>
        LET n == try.maxAttempts
            k == FirstResolve(try.script, n)
            r == try.result[1]
        IN  IF k > 0
            THEN /\ try.invocations = k
                 /\ ~isFailure(r)
                 /\ r.value = <<try.script[k].v>>
            ELSE /\ try.invocations = n
                 /\ isFailure(r)
                 /\ Len(r.errors) = 1
                 /\ r.errors[1].context.attempts = n
                 /\ r.errors[1].context.maxAttempts = n
                 /\ r.errors[1].causedBy = <<Thrown(try.script[n], n)>>

\* the step in which the timer of the current attempt wins the race
C10_TimedOutNow ==
    (try.pc = "racing" /\ try.invocations \in try.timers
        /\ try'.timers = try.timers \ {try.invocations}) =>
            /\ try'.pc = "done"
            /\ try'.invocations = try.invocations
            /\ isFailure(try'.result[1])
            /\ Len(try'.result[1].errors) = 1
            /\ try'.result[1].errors[1].message = "Operation timed out"
            /\ try'.result[1].errors[1].context = [timeoutMs |-> try.timeoutMs]

\* C10: when the timer of the current attempt fires before the action settles,
\* tryAsync returns at once a failure with the single error 'Operation timed
\* out' whose context is {timeoutMs}, and the action is not invoked again,
\* whatever the number of attempts left.
C10_Timeout ==
    /\ [][C10_TimedOutNow]_vars
    /\ [][try.pc = "done" =>
            (try'.pc = "done" /\ try'.invocations = try.invocations
                /\ try'.result = try.result)]_vars
C10_Witness ==
    /\ try.pc = "done"
    /\ try.timedOut
    /\ try.invocations = 2
    /\ try.maxAttempts > 2
    /\ try.result[1].errors[1].context = [timeoutMs |-> <<1>>]

----------------------------------------------------------------------------
(* Properties of the conversions between Result and ResultAsync *)

\* C12: fromResult(r).toResult() has r's status, an errors read equal to r's,
\* a success sequence equal to r's record by record, timestamps included, and
\* r's metadata.
C12_RoundTrip ==
    (last.op = "toResult" /\ out # <<>>) =>
        /\ out[1].isSuccess = cur[1].isSuccess
        /\ Result_errors(out[1]) = Result_errors(cur[1])
        /\ Result_getSuccesses(out[1]) = Result_getSuccesses(cur[1])
        /\ Result_getMetadata(out[1]) = Result_getMetadata(cur[1])

----------------------------------------------------------------------------
(* Properties of AsyncUtils.combine and ResultAsync.merge *)

\* every pending value of rs has resolved
AllResolve(rs) == \A i \in 1..Len(rs) : rs[i].value[1].st = "fulfilled"

RECURSIVE FailingErrorsRead(_)
\* the errors reads of the failing inputs of rs, concatenated in input order
FailingErrorsRead(rs) ==
    IF rs = <<>> THEN <<>>
    ELSE (IF Head(rs).isSuccess THEN <<>> ELSE ResultAsync_errors(Head(rs)))
            \o FailingErrorsRead(Tail(rs))

\* C11: for inputs rs whose pending values resolve, combine(rs) is a failure
\* carrying the errors of all failing inputs in input order when some input is
\* in failure status, and otherwise a success whose value is the list of the
\* inputs' resolved values in input order.
C11_Combine ==
    (merged # <<>> /\ merged[1].op = "combine" /\ AllResolve(pool)) =>
        /\ merged[1].p.st = "fulfilled"
        /\ IF AllSucceed(pool)
           THEN /\ merged[1].p.v.isSuccess
                /\ merged[1].p.v.value =
                    <<Fulfilled(<<[i \in 1..Len(pool) |-> pool[i].value[1].v]>>)>>
           ELSE /\ isFailure(merged[1].p.v)
                /\ ResultAsync_errors(merged[1].p.v) = FailingErrorsRead(pool)

----------------------------------------------------------------------------
(* Properties of retry *)

\* the number of rejections at the head of the script sc
RECURSIVE LeadingRejections(_)
LeadingRejections(sc) ==
    IF sc = <<>> \/ Head(sc).kind = "resolve" THEN 0
    ELSE 1 + LeadingRejections(Tail(sc))

\* the error of a returned failure records the exhausted retries
RetryFailure(r, invoked) ==
    /\ isFailure(r)
    /\ Len(r.errors) = 1
    /\ r.errors[1].context.retries = try.retries
    /\ r.errors[1].context.attempts = invoked
    /\ r.errors[1].context.finalAttempt

----------------------------------------------------------------------------
(* Properties of the stamping operations *)

\* the metadata object of a slot, the empty object when the slot is empty
MetadataOf(slot) == IF slot = <<>> THEN <<>> ELSE slot[1]

\* C14: withMetadata(m) on a container with metadata M sets the metadata to the
\* shallow merge of M and m, m's keys winning; when m has no timestamp the one
\* of M is kept, and a fresh one is taken only when M had none.
C14_WithMetadata ==
    [][\A m \in FluentMetadataArgs :
        FluentWithMetadata(m) =>
            LET M == cur[1].metadata
                merge == Spread(MetadataOf(M), m)
            IN  cur'[1].metadata =
                    <<IF "timestamp" \in DOMAIN merge
                      THEN merge
                      ELSE Spread(merge, [timestamp |-> clock'])>>]_vars

\* the record withSuccess is given: a string is wrapped into { message }
SuccessRecord(s) == IF s.typeof = "string" THEN [message |-> s.s] ELSE s.o

\* C15: withSuccess(s) appends exactly one success record at the end of the
\* success sequence, stamped with the time of the call even when s carries a
\* timestamp of its own, and leaves status, value, errors and metadata (and
\* the options) unchanged, on success and on failure containers alike.
C15_WithSuccess ==
    [][\A s \in FluentSuccessArgs :
        FluentWithSuccess(s) =>
            /\ cur'[1].successes =
                Append(cur[1].successes,
                       Spread(SuccessRecord(s), [timestamp |-> clock']))
            /\ cur'[1].isSuccess = cur[1].isSuccess
            /\ cur'[1].value = cur[1].value
            /\ cur'[1].errors = cur[1].errors
            /\ cur'[1].metadata = cur[1].metadata
            /\ cur'[1].options = cur[1].options]_vars

C15_Witness ==
    /\ last.op = "withSuccess"
    /\ cur[1].kind = "ResultAsync"
    /\ isFailure(cur[1]) /\ cur[1].errors # <<>>
    /\ cur[1].metadata # <<>>
    /\ cur[1].successes[Len(cur[1].successes)].message = "t"
    /\ cur[1].successes[Len(cur[1].successes)].timestamp = 2

----------------------------------------------------------------------------
(* Properties of withContext *)

\* the context of an error record, the empty object when it has none
ContextOf(e) == IF "context" \in DOMAIN e THEN e.context ELSE <<>>

\* e without its context
WithoutContext(e) == [k \in (DOMAIN e) \ {"context"} |-> e[k]]

\* C16: withContext(c) merges c into the context of the most recently inserted
\* error only, c's keys winning over the keys already there, whatever the
\* preserveErrorsOrder option; every other error and every other field is
\* untouched, and a container without errors is not changed at all.
C16_WithContext ==
    [][\A c \in ContextArgs2 :
        CtxWithContext(c) =>
            LET es == cur[1].errors
                n == Len(es)
            IN  IF n = 0
                THEN cur' = cur
                ELSE /\ Len(cur'[1].errors) = n
                     /\ \A i \in 1..(n - 1) : cur'[1].errors[i] = es[i]
                     /\ WithoutContext(cur'[1].errors[n]) = WithoutContext(es[n])
                     /\ DOMAIN cur'[1].errors[n].context =
                            (DOMAIN ContextOf(es[n])) \cup (DOMAIN c)
                     /\ \A k \in DOMAIN cur'[1].errors[n].context :
                            cur'[1].errors[n].context[k] =
                                IF k \in DOMAIN c THEN c[k] ELSE ContextOf(es[n])[k]
                     /\ [cur'[1] EXCEPT !.errors = es] = cur[1]]_vars

C16_Witness ==
    /\ last.op = "withContext"
    /\ ~cur[1].options.preserveErrorsOrder
    /\ Len(cur[1].errors) = 2
    /\ "context" \in DOMAIN cur[1].errors[1]
    /\ cur[1].errors[1].context = [k |-> 0]
    /\ "context" \in DOMAIN cur[1].errors[2]
    /\ cur[1].errors[2].context = [k |-> 1, j |-> 2]

C16_WitnessNoErrors ==
    /\ last.op = "withContext"
    /\ cur[1].errors = <<>>
    /\ cur[1].successes # <<>>

----------------------------------------------------------------------------
(* Properties of the factories *)

\* o[k] when o has the key k, and d otherwise
KeyOr(o, k, d) == IF k \in DOMAIN o THEN o[k] ELSE d

\* the metadata a container gets from the metadata object m at time now
Stamped(m, now) == Spread(m, [timestamp |-> KeyOr(m, "timestamp", now)])

\* what C17 says of the container c made at time now from the second argument arg
C17_Made(c, arg, now) ==
    IF arg # <<>> /\ "metadata" \in DOMAIN arg[1]
    THEN /\ c.options.defaultValueWhenFailure =
                KeyOr(arg[1], "defaultValueWhenFailure", FALSE)
         /\ c.options.preserveErrorsOrder =
                KeyOr(arg[1], "preserveErrorsOrder", TRUE)
         /\ c.metadata = IF arg[1].metadata = <<>> THEN <<>>
                         ELSE <<Stamped(arg[1].metadata[1], now)>>
    ELSE /\ ~c.options.defaultValueWhenFailure
         /\ c.options.preserveErrorsOrder
         /\ c.metadata = IF arg = <<>> THEN <<>> ELSE <<Stamped(arg[1], now)>>

\* C17: ok(value, arg) and okAsync(value, arg) take arg as an options object
\* exactly when it has the key metadata (its two options are applied and its
\* nested metadata becomes the container's metadata); an arg without that key
\* becomes the container's metadata as a whole and both options keep their
\* defaults.
C17_OkArgument ==
    [][\A arg \in FluentOkArgs :
        ((last'.op = "ok" /\ FluentOk(arg))
            \/ (last'.op = "okAsync" /\ FluentOkAsync(arg))) =>
            C17_Made(cur'[1], arg, clock')]_vars

C17_Witness ==
    /\ last.op = "ok"
    /\ cur[1].options.defaultValueWhenFailure
    /\ cur[1].metadata = <<[message |-> "m", timestamp |-> 0]>>

C17_WitnessMetadata ==
    /\ last.op = "okAsync"
    /\ ~cur[1].options.defaultValueWhenFailure
    /\ cur[1].metadata # <<>>
    /\ "defaultValueWhenFailure" \in DOMAIN cur[1].metadata[1]

----------------------------------------------------------------------------
(* Properties of ResultAsync.from *)

\* what from returns for a promise that resolves
C18_Resolved(promise) ==
    IF promise.v.isResult
    THEN \E now \in {clock, clock'} :
            out'[1] = ResultAsync_fromResult(promise.v.result, now)
    ELSE /\ out'[1].isSuccess
         /\ out'[1].value = <<Fulfilled(promise.v.value)>>
         /\ out'[1].errors = <<>>

\* C18 as stated: from(p) never rejects; for p resolving to a Result it returns
\* what fromResult returns for it, for p resolving to a plain value a success
\* holding the value, and for p rejecting a failure with exactly one error that
\* carries the rejection's message and, when the rejection is an Error object,
\* the rejection as its cause.
C18_From ==
    [][\A promise \in FromArgs :
        (last'.op = "from" /\ From(promise)) =>
            /\ last'.ret = "new"
            /\ IF promise.st = "fulfilled"
               THEN C18_Resolved(promise)
               ELSE /\ isFailure(out'[1])
                    /\ Len(out'[1].errors) = 1
                    /\ out'[1].errors[1].message = promise.reason.message
                    /\ promise.reason.isError =>
                            out'[1].errors[1].causedBy = <<promise.reason>>]_vars

\* C18 amended: as stated, except that the single error of the failure carries
\* the rejection's message only when the rejection is an Error object; for any
\* other rejection it carries the message 'Promise rejected' and no cause.
C18_FromFallback ==
    [][\A promise \in FromArgs :
        (last'.op = "from" /\ From(promise)) =>
            /\ last'.ret = "new"
            /\ IF promise.st = "fulfilled"
               THEN C18_Resolved(promise)
               ELSE /\ isFailure(out'[1])
                    /\ Len(out'[1].errors) = 1
                    /\ out'[1].errors[1].message =
                            IF promise.reason.isError
                            THEN promise.reason.message ELSE "Promise rejected"
                    /\ out'[1].errors[1].causedBy =
                            IF promise.reason.isError
                            THEN <<promise.reason>> ELSE <<>>]_vars

C18_Witness ==
    /\ last.op = "from" /\ out # <<>>
    /\ isFailure(out[1])
    /\ out[1].errors[1].message = "Promise rejected"
    /\ IsResult /\ isFailure(cur[1])

C18_WitnessResult ==
    /\ last.op = "from" /\ out # <<>>
    /\ IsResult /\ isFailure(cur[1])
    /\ isFailure(out[1])
    /\ Len(out[1].errors) = 2

----------------------------------------------------------------------------
(* Properties of ResultAsync.merge *)

\* the Result with the fields of the ResultAsync a and its resolved value
SyncOf(a) == [a EXCEPT !.kind = "Result", !.value = a.value[1].v]

SyncPool == [i \in 1..Len(pool) |-> SyncOf(pool[i])]

\* C19: for inputs whose pending values resolve, ResultAsync.merge gives the
\* status and the errors that Result.merge gives for the synchronous
\* equivalents of the inputs and, when all inputs succeed, a pending value
\* resolving to the same list of values (success inputs without a value are
\* skipped); when some input failed the pending value resolves to the empty list.
C19_MergeAsync ==
    (merged # <<>> /\ merged[1].op = "merge" /\ AllResolve(pool)) =>
        LET a == merged[1].p.v
            r == Result_merge(SyncPool, clock)
        IN  /\ a.isSuccess = r.isSuccess
            /\ a.errors = r.errors
            /\ ResultAsync_errors(a) = Result_errors(r)
            /\ IF AllSucceed(pool)
               THEN a.value = <<Fulfilled(<<[i \in 1..Len(r.value[1]) |->
                                                <<r.value[1][i]>>]>>)>>
               ELSE a.value = <<Fulfilled(<< <<>> >>)>>

----------------------------------------------------------------------------
(* Properties of map on a success container *)

FluentOps ==
    {"withError", "withSuccess", "withValue", "withMetadata", "withContext",
     "clearErrors"}

\* what a completed map returned for a receiver in success status
C20_Returned ==
    (last.op = "map" /\ last.ret # "pending" /\ cur[1].isSuccess
        /\ cur[1].value[1].st = "fulfilled") =>
            /\ last.ret = "new"
            /\ last.calls = 1
            /\ out # <<>>
            /\ out[1].isSuccess
            /\ out[1].value = <<Fulfilled(MapFunc(cur[1].value[1].v))>>
            /\ out[1].errors = <<>>
            /\ out[1].metadata = cur[1].metadata

----------------------------------------------------------------------------
(* Properties of the value slot of a ResultAsync *)

\* the slot c holds a ResultAsync
HoldsAsync(c) == c # <<>> /\ c[1].kind = "ResultAsync"

\* the value slot of the ResultAsync in c holds a promise
HoldsHandle(c) ==
    /\ c[1].value # <<>>
    /\ c[1].value[1].st \in {"fulfilled", "rejected"}

\* C21: the value slot of every ResultAsync holds a pending handle (a promise,
\* settled one way or the other) and is never absent, on success and on failure
\* containers alike, so no map or bind returns the 'No value present' failure.
C21_ValueSlot ==
    /\ HoldsAsync(cur) => HoldsHandle(cur)
    /\ HoldsAsync(out) => HoldsHandle(out)
    /\ (last.op \in {"map", "bind"} /\ out # <<>>) =>
            \A i \in 1..Len(out[1].errors) :
                out[1].errors[i].message # "No value present"

C21_Witness ==
    /\ last.op = "map" /\ last.ret = "new" /\ out # <<>>
    /\ cur[1].value = <<Fulfilled(<<>>)>>
    /\ out[1].isSuccess
    /\ out[1].value = <<Fulfilled(<<>>)>>

C21_WitnessFailure ==
    /\ last.op = "withValue"
    /\ cur[1].kind = "ResultAsync"
    /\ isFailure(cur[1])
    /\ cur[1].value = <<Fulfilled(<<>>)>>

----------------------------------------------------------------------------
(* Properties of the retries of tryAsync *)

\* the step in which the action of the current attempt settles
ActionSettles ==
    /\ try.pc \in {"racing", "awaiting"}
    /\ try'.pc # try.pc
    /\ try'.timers = try.timers

\* C22: a rejection raised by the action itself, whatever its message and
\* whether or not timeoutMs is set, is followed by another invocation as long
\* as fewer than maxAttempts invocations have been made; a call that returns a
\* failure after fewer than maxAttempts invocations has had its timer expire.
C22_ActionRejectionRetried ==
    /\ [][(ActionSettles /\ try.script[try.invocations].kind = "reject"
            /\ try.invocations < try.maxAttempts) =>
                try'.pc \in {"delay", "attempt"}]_vars
    /\ [][(try.pc = "delay" /\ try'.pc # "delay") => try'.pc = "attempt"]_vars
    /\ []((try.pc = "done" /\ isFailure(try.result[1])
            /\ try.invocations < try.maxAttempts) => try.timedOut)

----------------------------------------------------------------------------
(* ResultAsync.toResult called without awaiting it: the caller goes on with
   fluent operations on the receiver while the call waits for the pending
   value.  pending.awaited is the promise the call awaits; pending.atCall only
   records the receiver as it was when toResult was called. *)

AwaitOkAsync ==
    /\ cur = <<>> /\ pc = "idle"
    /\ \E value \in {PlainArg(<<1>>), PromiseArg(Rejected("x"))}, arg \in PoolOkArgs :
        cur' = <<ResultAsync_okAsync(value, arg, clock)>>
    /\ last' = Did("okAsync", "new", 0, <<>>)
    /\ UNCHANGED <<out, clock, pc, pending, pool, merged, try>>

\* toResult, up to its await
ToResultCall ==
    /\ pc = "idle" /\ out = <<>> /\ IsResultAsync
    /\ pending' = [awaited |-> cur[1].value[1], atCall |-> cur[1]]
    /\ pc' = "toResult_value"
    /\ last' = Did("toResult", "pending", 0, <<>>)
    /\ UNCHANGED <<cur, out, clock, pool, merged, try>>

\* after await this._value
ToResultValue ==
    /\ pc = "toResult_value"
    /\ \E now \in Nows :
        LET returned == ResultAsync_toResult(
                            [cur[1] EXCEPT !.value = <<pending.awaited>>], now)
        IN  /\ out' = IF returned.st = "fulfilled" THEN <<returned.v>> ELSE <<>>
            /\ last' = IF returned.st = "fulfilled"
                       THEN Did("toResult", "new", 0, <<>>)
                       ELSE Did("toResult", "rejected", 0, returned.reason)
            /\ clock' = now
    /\ pc' = "idle"
    /\ pending' = <<>>
    /\ UNCHANGED <<cur, pool, merged, try>>

\* the fluent operations the caller makes before the call and while it waits
AwaitWithError ==
    /\ cur # <<>> /\ out = <<>> /\ Records(cur[1]) < MaxRecords
    /\ cur' = <<ResultAsync_withError(cur[1], StrArg("a"), clock)>>
    /\ last' = Did("withError", "this", 0, <<>>)
    /\ UNCHANGED <<out, clock, pc, pending, pool, merged, try>>

AwaitWithSuccess ==
    /\ cur # <<>> /\ out = <<>> /\ Records(cur[1]) < MaxRecords
    /\ cur' = <<ResultAsync_withSuccess(cur[1], StrArg("s"), clock)>>
    /\ last' = Did("withSuccess", "this", 0, <<>>)
    /\ UNCHANGED <<out, clock, pc, pending, pool, merged, try>>

AwaitWithMetadata ==
    /\ cur # <<>> /\ out = <<>>
    /\ \E metadata \in FluentMetadataArgs :
        cur' = <<ResultAsync_withMetadata(cur[1], metadata, clock)>>
    /\ last' = Did("withMetadata", "this", 0, <<>>)
    /\ UNCHANGED <<out, clock, pc, pending, pool, merged, try>>

AwaitClearErrors ==
    /\ cur # <<>> /\ out = <<>> /\ cur[1].errors # <<>>
    /\ cur' = <<ResultAsync_clearErrors(cur[1])>>
    /\ last' = Did("clearErrors", "this", 0, <<>>)
    /\ UNCHANGED <<out, clock, pc, pending, pool, merged, try>>

NextAwait ==
    \/ AwaitOkAsync \/ AwaitWithError \/ AwaitWithSuccess \/ AwaitWithMetadata
    \/ AwaitClearErrors \/ ToResultCall \/ ToResultValue \/ Discard

SpecAwait == Init /\ [][NextAwait]_vars

\* C23: the Result toResult() returns has the status, the errors, the successes
\* (record by record, their messages) and the metadata the container had when
\* toResult was called, whatever is called on the container between that call
\* and the resolution of the pending value.
C23_CallOrder ==
    [][(pc = "toResult_value" /\ pc' = "idle" /\ last'.ret = "new") =>
            /\ out'[1].isSuccess = pending.atCall.isSuccess
            /\ Result_errors(out'[1]) = ResultAsync_errors(pending.atCall)
            /\ Messages_(Result_getSuccesses(out'[1])) =
                    Messages_(pending.atCall.successes)
            /\ Result_getMetadata(out'[1]) = pending.atCall.metadata]_vars

----------------------------------------------------------------------------
(* AsyncUtils.try and AsyncUtils.combine called with an options object
   (src/unnamed/part_003), and errors added to what they returned. *)

\* try(action, options), for an action that has settled with outcome
AsyncUtils_try(outcome, options, now) ==
    IF outcome.kind = "resolve"
    THEN Result_ok(<<outcome.v>>, IF options = <<>> THEN <<<<>>>> ELSE options, now)
    ELSE Result_fail(
            ObjArg([message |-> IF outcome.isError THEN outcome.message
                                ELSE "Unknown error occurred",
                    causedBy |-> IF outcome.isError THEN <<Thrown(outcome, 1)>> ELSE <<>>,
                    timestamp |-> now,
                    context |-> [stack |-> IF outcome.isError THEN <<"stack">> ELSE <<>>]]),
            <<>>, now)

\* the options argument of try and combine
OptionArgs ==
    {<<>>,
     <<<<>>>>,
     <<[defaultValueWhenFailure |-> TRUE]>>,
     <<[preserveErrorsOrder |-> FALSE]>>,
     <<[metadata |-> <<>>, defaultValueWhenFailure |-> TRUE,
        preserveErrorsOrder |-> FALSE]>>}

\* the lists handed to combine: their pending values have resolved
CombineInputs ==
    {<<ResultAsync_okAsync(PlainArg(<<1>>), <<>>, 1)>>,
     <<ResultAsync_okAsync(PlainArg(<<1>>), <<>>, 1),
       ResultAsync_okAsync(PlainArg(<<2>>), <<>>, 1)>>,
     <<ResultAsync_okAsync(PlainArg(<<1>>), <<>>, 1),
       ResultAsync_failAsync(StrArg("a"), <<>>, 1)>>}

OptTry(options) ==
    /\ cur = <<>>
    /\ \E outcome \in RetryOutcomes, now \in Nows :
        /\ cur' = <<AsyncUtils_try(outcome, options, now)>>
        /\ clock' = now
    /\ last' = Did("try", "new", 1, <<>>)
    /\ UNCHANGED <<out, pc, pending, pool, merged, try>>

OptCombine(options) ==
    /\ cur = <<>>
    /\ \E asyncResults \in CombineInputs, now \in Nows :
        /\ cur' = <<AsyncUtils_combine(asyncResults, options, now).v>>
        /\ clock' = now
    /\ last' = Did("combine", "new", 0, <<>>)
    /\ UNCHANGED <<out, pc, pending, pool, merged, try>>

NextOptions ==
    \/ (\E options \in OptionArgs : OptTry(options))
    \/ (\E options \in OptionArgs : OptCombine(options))
    \/ CtxWithError \/ CtxClearErrors

SpecOptions == Init /\ [][NextOptions]_vars

\* the container c once the errors 'a' and 'b' have been added to it
Failed(c) ==
    IF c.kind = "Result"
    THEN Result_withError(Result_withError(c, StrArg("a"), 1), StrArg("b"), 1)
    ELSE ResultAsync_withError(ResultAsync_withError(c, StrArg("a"), 1), StrArg("b"), 1)

\* the value read throws on c
ValueThrows(c) ==
    IF c.kind = "Result" THEN Result_value(c).threw ELSE ResultAsync_value(c).threw

\* the options object o governs the value and errors reads on c
Governs(o, c) ==
    /\ ValueThrows(Failed(c)) = ~KeyOr(MetadataOf(o), "defaultValueWhenFailure", FALSE)
    /\ Messages_(Errors(Failed(c))) =
            IF KeyOr(MetadataOf(o), "preserveErrorsOrder", TRUE)
            THEN <<"a", "b">> ELSE <<"b", "a">>

\* C24: the success container that try(action, options) returns when the action
\* resolves, and the one combine(rs, options) returns when all inputs succeed,
\* has its later value and errors reads governed by the defaultValueWhenFailure
\* and preserveErrorsOrder values of options, for every options object.
C24_OptionsGovern ==
    [][\A o \in OptionArgs :
        (last'.op \in {"try", "combine"} /\ cur'[1].isSuccess
            /\ ((last'.op = "try" /\ OptTry(o))
                \/ (last'.op = "combine" /\ OptCombine(o)))) =>
                    Governs(o, cur'[1])]_vars

----------------------------------------------------------------------------
(* ResultAsync.bind on a container with metadata, with functions that return
   containers carrying metadata and successes of their own.  The caller awaits
   each call. *)

\* the functions handed to bind; "meta" returns a success with its own
\* metadata and one success record
BindFuncs2 == BindFuncs \cup {"meta"}

\* the second argument of okAsync for the receiver
BindOkArgs ==
    {<<>>, <<[message |-> "m"]>>, <<[traceId |-> "t", timestamp |-> 0]>>}

BindOkAsync ==
    /\ Idle /\ cur = <<>>
    /\ \E value \in {PlainArg(<<1>>), PlainArg(<<>>), PromiseArg(Rejected("x"))},
          arg \in BindOkArgs :
        cur' = <<ResultAsync_okAsync(value, arg, clock)>>
    /\ last' = Did("okAsync", "new", 0, <<>>)
    /\ UNCHANGED <<out, clock, pc, pending, pool, merged, try>>

\* bind(func), up to its first await
BindCallOf(f) ==
    /\ Idle /\ IsResultAsync
    /\ \E now \in Nows :
        /\ clock' = now
        /\ IF isFailure(cur[1])
           THEN /\ pending' = [result |->
                        ResultAsync_failAsync(ArrArg(ResultAsync_getErrors(cur[1])),
                                              <<>>, now),
                               calls |-> 0]
                /\ pc' = "bind_failed"
                /\ last' = Did("bind", "pending", 0, <<>>)
                /\ UNCHANGED out
           ELSE IF cur[1].value = <<>>
           THEN /\ out' = <<ResultAsync_failAsync(StrArg("No value present"), <<>>, now)>>
                /\ last' = Did("bind", "new", 0, <<>>)
                /\ UNCHANGED <<pc, pending>>
           ELSE /\ pending' = [awaited |-> cur[1].value[1], func |-> f, calls |-> 0]
                /\ pc' = "bind_value"
                /\ last' = Did("bind", "pending", 0, <<>>)
                /\ UNCHANGED out
    /\ UNCHANGED <<cur, pool, merged, try>>

NextBind ==
    \/ BindOkAsync \/ WithError \/ WithSuccess \/ WithMetadata \/ ClearErrors
    \/ (\E f \in BindFuncs2 : BindCallOf(f))
    \/ BindFailed \/ BindValue \/ BindFunc_ \/ Discard

SpecBind == Init /\ [][NextBind]_vars

\* C25: on a ResultAsync in success status whose pending value resolves,
\* bind(func) calls func once, with the resolved value, and returns the
\* container func produced: with its metadata shallow-merged with the
\* receiver's metadata m, m's keys winning, when the receiver has metadata, and
\* untouched when it has none; status, value, errors and successes are those
\* func gave it, and the receiver is unchanged.
C25_BindSuccess ==
    /\ [][(pc = "bind_value" /\ pc' = "bind_func") =>
            /\ pending'.calls = 1
            /\ pending'.result = BindFunc(pending.func, pending.awaited.v, clock')]_vars
    /\ [][(pc = "bind_func" /\ pc' = "idle") =>
            LET produced == pending.result
                m == cur[1].metadata
            IN  /\ last'.ret = "func" /\ last'.calls = 1
                /\ cur' = cur
                /\ out'[1] =
                    IF m = <<>> THEN produced
                    ELSE [produced EXCEPT !.metadata =
                            <<Spread(MetadataOf(produced.metadata), m[1])>>]]_vars
    /\ [][(pc = "bind_value" /\ pending.awaited.st = "fulfilled") =>
            pc' = "bind_func"]_vars

C25_Witness ==
    /\ last.op = "bind" /\ last.ret = "func" /\ out # <<>>
    /\ cur[1].isSuccess
    /\ cur[1].metadata # <<>> /\ cur[1].metadata[1].message = "m"
    /\ out[1].isSuccess
    /\ out[1].successes # <<>>
    /\ out[1].metadata =
        <<[message |-> "m", requestId |-> "r", timestamp |-> cur[1].metadata[1].timestamp]>>

C25_WitnessNoMetadata ==
    /\ last.op = "bind" /\ last.ret = "func" /\ out # <<>>
    /\ cur[1].isSuccess /\ cur[1].metadata = <<>>
    /\ out[1].metadata = <<[message |-> "own", requestId |-> "r", timestamp |-> 0]>>

----------------------------------------------------------------------------
(* Properties of the delays of tryAsync *)

\* the step in which the action is invoked again
InvokedAgain ==
    /\ try.pc = "attempt"
    /\ try.invocations >= 1
    /\ try'.invocations = try.invocations + 1

\* C26 as stated: with delayMs > 0 a wait separates consecutive attempts, except
\* that invocation number maxAttempts is not preceded by a wait.
C26_SkippedBeforeFinal ==
    [][(try.delayMs > 0 /\ InvokedAgain) =>
            try.delays = IF try'.invocations = try.maxAttempts
                         THEN try.invocations - 1
                         ELSE try.invocations]_vars

\* C26 amended: with delayMs > 0 a wait of delayMs separates every two
\* consecutive invocations of the action, the one before invocation number
\* maxAttempts included; the wait that is skipped is the one after the last
\* invocation, so every wait is followed by an invocation and a finished call
\* has waited once less than it has invoked the action.  With delayMs = 0
\* there is no wait.
C26_DelayBetween ==
    /\ [][InvokedAgain =>
            try.delays = IF try.delayMs > 0 THEN try.invocations ELSE 0]_vars
    /\ [][try'.delays # try.delays =>
            (try'.pc = "delay" /\ try.delayMs > 0
                /\ try.invocations < try.maxAttempts)]_vars
    /\ [][(try.pc = "delay" /\ try'.pc # "delay") => try'.pc = "attempt"]_vars
    /\ [](try.pc = "done" =>
            try.delays = IF try.delayMs > 0 THEN try.invocations - 1 ELSE 0)

C26_Witness ==
    /\ try.pc = "done"
    /\ try.delayMs > 0
    /\ try.maxAttempts = 3
    /\ try.invocations = 3
    /\ try.delays = 2
    /\ isFailure(try.result[1])

----------------------------------------------------------------------------
(* Properties of the race between the action and the timer *)

\* what the call has decided so far: everything but the timers and actions
\* still outstanding
Decided(t) == [k \in (DOMAIN t) \ {"timers", "running"} |-> t[k]]

\* the step in which a timer fires or an action settles whose race is over
LoserSettles ==
    \/ \E i \in try.timers :
            /\ ~(try.pc = "racing" /\ i = try.invocations)
            /\ try'.timers = try.timers \ {i}
    \/ \E i \in try.running :
            /\ ~(try.pc \in {"racing", "awaiting"} /\ i = try.invocations)
            /\ try'.running = try.running \ {i}

\* C27: each attempt races the action against its own timer and whichever
\* settles first fixes the attempt's outcome: an attempt times out only while
\* its own race is open and its own timer is still to fire; a loser's later
\* settlement (a late action, a late timer, a timer of an earlier attempt
\* during a later one) changes nothing of what the call has decided, and a
\* returned result never changes.
C27_Race ==
    /\ [][LoserSettles => Decided(try') = Decided(try)]_vars
    /\ [][(try'.timedOut /\ ~try.timedOut) =>
            /\ try.pc = "racing"
            /\ try.invocations \in try.timers
            /\ try.invocations \in try.running
            /\ try'.timers = try.timers \ {try.invocations}
            /\ try'.pc = "done"]_vars
    /\ [][try.pc = "done" =>
            (try'.pc = "done" /\ try'.result = try.result
                /\ try'.invocations = try.invocations)]_vars

\* a timer of the first attempt fired during the second attempt, which the
\* action then won
C27_Witness ==
    /\ try.pc = "done"
    /\ try.invocations = 2
    /\ ~try.timedOut
    /\ try.timeoutMs # <<>> /\ try.timeoutMs[1] # 0
    /\ try.timers = {2}
    /\ ~isFailure(try.result[1])

\* the action settled after its timer had fired and the call had returned
C27_WitnessLateAction ==
    /\ try.pc = "done"
    /\ try.timedOut
    /\ try.running = {}
    /\ try.timers = {}
    /\ try.invocations = 2

----------------------------------------------------------------------------
(* AsyncUtils.timeout (src/unnamed/part_003).  One call: try holds its
   argument, its position pc and what it returned; the action is given by what
   its invocation settles with.  timers and running are as for tryAsync. *)

\* new Error(`Operation timed out after ${timeoutMs}ms`)
TimeoutAfterError(timeoutMs) ==
    [isError |-> TRUE,
     message |-> "Operation timed out after " \o ToString(timeoutMs) \o "ms",
     by |-> "timer", at |-> 1]

TimeoutCalls ==
    {[pc |-> "start", outcome |-> o, timeoutMs |-> tm, result |-> <<>>,
      timers |-> {}, running |-> {}, invocations |-> 0, timedOut |-> FALSE] :
        o \in Outcomes, tm \in 0..MaxClock}

\* catch (error) { ... }
timeout_catch(t, error, now) ==
    [t EXCEPT
        !.pc = "done",
        !.result = <<Result_fail(
            ObjArg([message |-> IF error.isError THEN error.message
                                ELSE "Operation timed out",
                    causedBy |-> IF error.isError THEN <<error>> ELSE <<>>,
                    context |-> [timeoutMs |-> t.timeoutMs]]),
            <<>>, now)>>]

InitTimeout ==
    /\ cur = <<>>
    /\ out = <<>>
    /\ clock = 1
    /\ last = Did("none", "none", 0, <<>>)
    /\ pc = "idle"
    /\ pending = <<>>
    /\ pool = <<>>
    /\ merged = <<>>
    /\ try \in TimeoutCalls

\* the try block up to its await: the timer is set, the action is called
TimeoutInvoke ==
    /\ try.pc = "start"
    /\ try' = [try EXCEPT !.invocations = 1, !.timers = {1}, !.running = {1},
                          !.pc = "racing"]
    /\ UNCHANGED <<cur, out, clock, last, pc, pending, pool, merged>>

\* the action settles first
TimeoutSettled ==
    /\ try.pc = "racing"
    /\ LET settled == [try EXCEPT !.running = {}]
       IN  try' = IF try.outcome.kind = "resolve"
                  THEN [settled EXCEPT !.pc = "done",
                            !.result = <<Result_ok(<<try.outcome.v>>, <<>>, clock)>>]
                  ELSE timeout_catch(settled, Thrown(try.outcome, 1), clock)
    /\ UNCHANGED <<cur, out, clock, last, pc, pending, pool, merged>>

\* the timer fires first
TimeoutFired ==
    /\ try.pc = "racing"
    /\ try' = timeout_catch([try EXCEPT !.timers = {}, !.timedOut = TRUE],
                            TimeoutAfterError(try.timeoutMs), clock)
    /\ UNCHANGED <<cur, out, clock, last, pc, pending, pool, merged>>

\* the timer fires after the action has settled
TimeoutLateTimer ==
    /\ try.pc = "done" /\ try.timers # {}
    /\ try' = [try EXCEPT !.timers = {}]
    /\ UNCHANGED <<cur, out, clock, last, pc, pending, pool, merged>>

\* the action settles after the timer has fired
TimeoutLateAction ==
    /\ try.pc = "done" /\ try.running # {}
    /\ try' = [try EXCEPT !.running = {}]
    /\ UNCHANGED <<cur, out, clock, last, pc, pending, pool, merged>>

NextTimeout ==
    \/ TimeoutInvoke \/ TimeoutSettled \/ TimeoutFired
    \/ TimeoutLateTimer \/ TimeoutLateAction

SpecTimeout == InitTimeout /\ [][NextTimeout]_vars

----------------------------------------------------------------------------
(* Properties of the status and the errors *)

\* a container in success status has no errors
Clean(c) == c.isSuccess => c.errors = <<>>

\* every container of the state is clean: the one held, the one returned, the
\* ones of the list and what merge, combine or from gave
AllClean ==
    /\ cur # <<>> => Clean(cur[1])
    /\ out # <<>> => Clean(out[1])
    /\ \A i \in 1..Len(pool) : Clean(pool[i])
    /\ merged # <<>> =>
        IF "kind" \in DOMAIN merged[1] THEN Clean(merged[1])
        ELSE merged[1].p.st = "fulfilled" => Clean(merged[1].p.v)

\* the step is an operation on the container the caller holds
SameContainer == cur # <<>> /\ cur' # <<>> /\ last'.op # "adopt"

\* C28: a Result or ResultAsync in success status has an empty error sequence
\* in every state; an operation that adds errors to a container leaves it in
\* failure status, and only clearErrors takes a container from failure back to
\* success.
C28_SuccessHasNoErrors ==
    /\ []AllClean
    /\ [][(SameContainer /\ Len(cur'[1].errors) > Len(cur[1].errors)) =>
            isFailure(cur'[1])]_vars
    /\ [][(SameContainer /\ isFailure(cur[1]) /\ cur'[1].isSuccess) =>
            last'.op = "clearErrors"]_vars

C28_Witness ==
    /\ last.op = "clearErrors"
    /\ cur[1].kind = "ResultAsync"
    /\ cur[1].isSuccess /\ cur[1].errors = <<>>
    /\ cur[1].successes # <<>>
    /\ cur[1].value # <<Fulfilled(<<>>)>>

C28_WitnessFromResult ==
    /\ last.op = "fromResult" /\ out # <<>>
    /\ isFailure(cur[1]) /\ isFailure(out[1])
    /\ Len(out[1].errors) = 2

----------------------------------------------------------------------------
(* A ResultAsync built by okAsync(p) for a promise p that may reject, and the
   operations that await its pending value.  The caller awaits each call. *)

RejectOkAsync ==
    /\ Idle /\ cur = <<>>
    /\ \E value \in {PlainArg(<<1>>), PromiseArg(Rejected("x"))}, arg \in PoolOkArgs :
        cur' = <<ResultAsync_okAsync(value, arg, clock)>>
    /\ last' = Did("okAsync", "new", 0, <<>>)
    /\ UNCHANGED <<out, clock, pc, pending, pool, merged, try>>

\* tap(action) and onSuccess(callback), up to their first await
SideEffectCall(op) ==
    /\ Idle /\ IsResultAsync
    /\ IF cur[1].isSuccess /\ cur[1].value # <<>>
       THEN /\ pending' = [awaited |-> cur[1].value[1], op |-> op, calls |-> 0]
            /\ pc' = "tap_value"
            /\ last' = Did(op, "pending", 0, <<>>)
       ELSE /\ last' = Did(op, "this", 0, <<>>)
            /\ UNCHANGED <<pc, pending>>
    /\ UNCHANGED <<cur, out, clock, pool, merged, try>>

\* after await this._value: the call of the action, which resolves
SideEffectValue ==
    /\ pc = "tap_value"
    /\ last' = IF pending.awaited.st = "rejected"
               THEN Did(pending.op, "rejected", pending.calls, pending.awaited.reason)
               ELSE Did(pending.op, "this", pending.calls + 1, <<>>)
    /\ pc' = "idle"
    /\ pending' = <<>>
    /\ UNCHANGED <<cur, out, clock, pool, merged, try>>

\* the other containers of the list handed to combine
CombineOthers ==
    {<<>>,
     <<ResultAsync_okAsync(PlainArg(<<2>>), <<>>, 1)>>,
     <<ResultAsync_failAsync(StrArg("a"), <<>>, 1)>>,
     <<ResultAsync_okAsync(PromiseArg(Rejected("y")), <<>>, 1)>>}

\* await AsyncUtils.combine([...before, cur, ...after])
CombineWith(before, after) ==
    /\ Idle /\ IsResultAsync
    /\ \E now \in Nows :
        LET returned == AsyncUtils_combine(before \o cur \o after, <<>>, now)
        IN  /\ out' = IF returned.st = "fulfilled" THEN <<returned.v>> ELSE <<>>
            /\ last' = IF returned.st = "fulfilled"
                       THEN Did("combine", "new", 0, <<>>)
                       ELSE Did("combine", "rejected", 0, returned.reason)
            /\ clock' = now
    /\ UNCHANGED <<cur, pc, pending, pool, merged, try>>

NextReject ==
    \/ RejectOkAsync \/ WithError \/ WithSuccess \/ ClearErrors
    \/ MapCall \/ MapFailed \/ MapValue \/ MapFunc_ \/ MapOk
    \/ BindCall \/ BindFailed \/ BindValue \/ BindFunc_
    \/ ToResultCall \/ ToResultValue
    \/ (\E op \in {"tap", "onSuccess"} : SideEffectCall(op))
    \/ SideEffectValue
    \/ (\E before \in CombineOthers, after \in CombineOthers :
            CombineWith(before, after))
    \/ Discard

SpecReject == Init /\ [][NextReject]_vars

\* the operations that await the pending value of their receiver
AwaitingOps == {"toResult", "map", "bind", "tap", "onSuccess"}

\* the receiver is in success status and its pending value has rejected
SuccessRejected(c) == c.isSuccess /\ c.value[1].st = "rejected"

\* the reason of the first container of the list whose pending value rejected
FirstRejection(list) ==
    list[CHOOSE i \in 1..Len(list) :
            /\ list[i].value[1].st = "rejected"
            /\ \A j \in 1..(i - 1) : list[j].value[1].st = "fulfilled"].value[1].reason

C29_WitnessCombine ==
    /\ last.op = "combine" /\ last.ret = "rejected"
    /\ last.val = "x"
    /\ cur[1].isSuccess

C29_WitnessTap ==
    /\ last.op = "tap" /\ last.ret = "rejected"
    /\ cur[1].isSuccess /\ cur[1].value = <<Rejected("x")>>

----------------------------------------------------------------------------
(* Properties of tryAsync with maxAttempts <= 0 *)

\* the context of the single error of the failure r records n attempts of m
RecordsAttempts(r, n, m) ==
    /\ isFailure(r)
    /\ Len(r.errors) = 1
    /\ "context" \in DOMAIN r.errors[1]
    /\ "attempts" \in DOMAIN r.errors[1].context
    /\ r.errors[1].context.attempts = n
    /\ r.errors[1].context.maxAttempts = m

\* C30: tryAsync invokes the action at least once whatever maxAttempts is; with
\* maxAttempts <= 0 and an action whose rejection is not a timeout, the action
\* is invoked exactly once, no delay is awaited, and the context of the
\* returned failure records attempts = 1 and the given maxAttempts.
C30_AtLeastOnce ==
    try.pc = "done" =>
        /\ try.invocations >= 1
        /\ (try.maxAttempts <= 0 /\ ~try.timedOut
                /\ try.script[1].kind = "reject") =>
                    /\ try.invocations = 1
                    /\ try.delays = 0
                    /\ RecordsAttempts(try.result[1], 1, try.maxAttempts)

====
